---------------------------- MODULE Spec2Model ----------------------------
(***************************************************************************)
(* A model of the snoopy-client rendering core: the ServerUpdateManager    *)
(* (latest-snapshot slot with a dirty flag), the Agent and Bullet          *)
(* kinematics, the Camera / DebugCamera state machine and the GameWorld    *)
(* game loop that ties them together.                                      *)
(*                                                                         *)
(* Numbers.  The program computes on IEEE doubles; the model computes on   *)
(* integers in fixed point.  Time is kept in milliseconds (Date.now()),    *)
(* acceleration in world units / s^2, velocity in 1/1000 world units / s   *)
(* and position in 1/1000000 world units, so that                          *)
(*     position + velocity * (millis / 1000)                               *)
(* and velocity + acceleration * (millis / 1000) are exact.  Zoom is kept  *)
(* in 1/1000.                                                              *)
(*                                                                         *)
(* Objects.  A JavaScript object used as a map ({ [id: string]: T }) is    *)
(* modelled by its insertion order and its values; the keys used are       *)
(* non-numeric strings, which for..in, Object.keys and Object.values       *)
(* enumerate in insertion order.  Object identity is modelled by an id     *)
(* (snapshots) or an oid (agents, bullets) drawn from a counter.           *)
(***************************************************************************)
EXTENDS Integers, Sequences, FiniteSets, TLC

VARIABLES
  serverUpdateManager, \* ServerUpdateManager: hasUpdateFlag, mostRecentUpdate
  server,              \* Server: updateObservers, streams started, id of the next snapshot
  players,             \* GameWorld.players
  bullets,             \* GameWorld.bullets
  isRequestingUpdates, \* GameWorld.isRequestingUpdates
  before,              \* GameWorld.before
  millisPassedSinceLastFrame, \* GameWorld.millisPassedSinceLastFrame
  camera,              \* GameWorld.camera (a Camera or a DebugCamera)
  debugMode,           \* constants.DEBUG_MODE
  clock,               \* Date.now()
  nextOid,             \* identity of the next Agent / Bullet object constructed
  agent,               \* an Agent driven directly through its methods
  bullet,              \* a Bullet driven directly through its methods
  vec1,                \* the first Vec2 object handed to a VectorMath function
  vec2,                \* the second Vec2 object handed to a VectorMath function
  ctx,                 \* the canvas drawing context: strokeStyle, lineWidth
  ioManager,           \* IOManager: layouts (keyboard layouts and cameras), currLayoutIdx, keysDown
  keyboardManager,     \* KeyboardManager: listeners, currListenerIdx
  outbound,            \* the messages handed to ServerUpdateManager.sendMessage, in order
  hist,                \* history of the calls made on the ServerUpdateManager / GameWorld
  lastOp               \* the method called last on a directly driven object

vars == <<serverUpdateManager, server, players, bullets, isRequestingUpdates,
          before, millisPassedSinceLastFrame, camera, debugMode, clock,
          nextOid, agent, bullet, vec1, vec2, ctx, ioManager, keyboardManager,
          outbound, hist, lastOp>>

-----------------------------------------------------------------------------
(* Bounds of the model *)

\* gameLoop invocations explored
MaxTicks == 3
\* snapshot objects the server creates
MaxUpdates == 2
\* input events (keydown, keyup, wheel) explored
MaxInputs == 2
\* method calls explored on a directly driven ServerUpdateManager, Agent or Bullet
MaxCalls == 5

-----------------------------------------------------------------------------
(* Program constants *)

\* `millis / 1000`: milliseconds per second
MillisPerSecond == 1000
\* constants.FPS
FPS == 30
\* fixed point: position units per world unit, velocity units per world unit / s
Milli == MillisPerSecond
Micro == MillisPerSecond * MillisPerSecond

-----------------------------------------------------------------------------
(* VectorMath *)

Vec(x, y) == [x |-> x, y |-> y]
origin == Vec(0, 0)
\* faulty variant: addition that takes y from the first vector only
addVectors_DropsY(v1, v2) == Vec(v1.x + v2.x, v1.y)
addVectors(v1, v2) == Vec(v1.x + v2.x, v1.y + v2.y)
subractVectors(v1, v2) == Vec(v1.x - v2.x, v1.y - v2.y)
multiplyVectors(v1, v2) == Vec(v1.x * v2.x, v1.y * v2.y)

\* The value standing for JavaScript's NaN where a number is expected; it lies
\* beyond every number the model computes.
NaN == 2000000000
\* JavaScript's a % b: NaN for b = 0, else the remainder of the division truncated
\* toward zero, which has the sign of a
Remainder(a, b) ==
  IF b = 0 THEN NaN
  ELSE LET m == (IF a < 0 THEN -a ELSE a) % (IF b < 0 THEN -b ELSE b)
       IN IF a < 0 THEN -m ELSE m
modVectors(v1, v2) == Vec(Remainder(v1.x, v2.x), Remainder(v1.y, v2.y))

-----------------------------------------------------------------------------
(* JavaScript objects used as maps *)

EmptyMap == [order |-> <<>>, val |-> [k \in {} |-> 0]]
hasOwnProperty(m, k) == k \in DOMAIN m.val
MapPut(m, k, v) ==
  IF hasOwnProperty(m, k)
  THEN [m EXCEPT !.val[k] = v]
  ELSE [order |-> Append(m.order, k), val |-> (k :> v) @@ m.val]
Last(s) == s[Len(s)]
SeqRange(s) == {s[i] : i \in DOMAIN s}

-----------------------------------------------------------------------------
(* Snapshots (ServerUpdate) the server may broadcast *)

AgentStateOf(px, py, vx, vy, ax, ay, o) ==
  [position |-> Vec(px * Micro, py * Micro), velocity |-> Vec(vx * Milli, vy * Milli),
   acceleration |-> Vec(ax, ay), orientation |-> o, cooldown |-> 0]
BulletStateOf(px, py, vx, vy) ==
  [position |-> Vec(px * Micro, py * Micro), velocity |-> Vec(vx * Milli, vy * Milli)]

\* the manager's initial value: { players: {}, bullets: {} }
EmptyUpdate == [id |-> 0, players |-> EmptyMap, bullets |-> EmptyMap]

\* one player with two bullets, and a bullet group of a player not listed
ContentA ==
  [players |-> MapPut(EmptyMap, "p1", AgentStateOf(0, 0, 300, 300, 0, 0, 0)),
   bullets |-> MapPut(MapPut(EmptyMap, "p1",
                        <<BulletStateOf(0, 50, 50, 0), BulletStateOf(10, 10, 0, 50)>>),
                      "p2", <<BulletStateOf(200, 0, -50, 0)>>)]
\* two players, the first accelerating; one bullet for the first, none for the second
ContentB ==
  [players |-> MapPut(MapPut(EmptyMap, "p1", AgentStateOf(100, 100, 5, 5, 0, -50, 3142)),
                      "p2", AgentStateOf(0, 300, 300, -300, 0, 0, 0)),
   bullets |-> MapPut(MapPut(EmptyMap, "p1", <<BulletStateOf(0, 0, 50, 100)>>),
                      "p2", <<>>)]
Contents == {ContentA, ContentB}
ServerUpdateOf(id, c) == [id |-> id, players |-> c.players, bullets |-> c.bullets]

-----------------------------------------------------------------------------
(* ServerUpdateManager *)

\* constructor
NewServerUpdateManager == [hasUpdateFlag |-> FALSE, mostRecentUpdate |-> EmptyUpdate]

hasUpdate(m) == m.hasUpdateFlag

\* faulty variant: getUpdate that forgets to clear the flag
getUpdate_KeepsFlag(m) == [m |-> m, ret |-> m.mostRecentUpdate]
\* the manager after the call, and the value returned
getUpdate(m) ==
  [m |-> [m EXCEPT !.hasUpdateFlag = FALSE], ret |-> m.mostRecentUpdate]

\* faulty variant: acceptUpdate that keeps an unconsumed snapshot instead of overwriting it
acceptUpdate_KeepsUnconsumed(m, update) ==
  IF m.hasUpdateFlag THEN m ELSE [hasUpdateFlag |-> TRUE, mostRecentUpdate |-> update]
acceptUpdate(m, update) ==
  [hasUpdateFlag |-> TRUE, mostRecentUpdate |-> update]

-----------------------------------------------------------------------------
(* Agent *)

\* constructor: the live fields and the destination fields both start at `state`
NewAgent(oid, state) ==
  [oid |-> oid,
   position |-> state.position, velocity |-> state.velocity,
   acceleration |-> state.acceleration, orientation |-> state.orientation,
   cooldown |-> state.cooldown,
   destinationPosition |-> state.position, destinationVelocity |-> state.velocity,
   destinationAcceleration |-> state.acceleration,
   destinationOrientation |-> state.orientation,
   destinationCooldown |-> state.cooldown]

getPosition(obj) == obj.position

\* faulty variant: Agent.update that updates the velocity first and moves by the new velocity
AgentUpdate_NewVelocityFirst(a, deltaTime) ==
  LET v == addVectors(a.velocity,
                      multiplyVectors(a.acceleration, Vec(deltaTime, deltaTime)))
  IN [a EXCEPT !.velocity = v,
               !.position = addVectors(a.position,
                                       multiplyVectors(v, Vec(deltaTime, deltaTime)))]
\* Agent.update: deltaTime is in milliseconds (see the header on units)
AgentUpdate(a, deltaTime) ==
  LET pos == addVectors(a.position,
                        multiplyVectors(a.velocity, Vec(deltaTime, deltaTime)))
      vel == addVectors(a.velocity,
                        multiplyVectors(a.acceleration, Vec(deltaTime, deltaTime)))
  IN [a EXCEPT !.position = pos, !.velocity = vel]

\* faulty variant: Agent.getServerUpdate that jumps to newState
AgentGetServerUpdate_JumpsToNew(a, newState) ==
  [a EXCEPT !.position = newState.position,
            !.velocity = newState.velocity,
            !.acceleration = newState.acceleration,
            !.orientation = newState.orientation,
            !.cooldown = newState.cooldown,
            !.destinationPosition = newState.position,
            !.destinationVelocity = newState.velocity,
            !.destinationAcceleration = newState.acceleration,
            !.destinationOrientation = newState.orientation,
            !.destinationCooldown = newState.cooldown]
\* Agent.getServerUpdate: jump to the stored destination, store newState as the destination
AgentGetServerUpdate(a, newState) ==
  [a EXCEPT !.position = a.destinationPosition,
            !.velocity = a.destinationVelocity,
            !.acceleration = a.destinationAcceleration,
            !.orientation = a.destinationOrientation,
            !.cooldown = a.destinationCooldown,
            !.destinationPosition = newState.position,
            !.destinationVelocity = newState.velocity,
            !.destinationAcceleration = newState.acceleration,
            !.destinationOrientation = newState.orientation,
            !.destinationCooldown = newState.cooldown]

-----------------------------------------------------------------------------
(* Bullet *)

\* constructor.  The Bullet keeps the position object it is given: `src` names the
\* snapshot vector that object is (snapshot id, group key, index), or is NoSrc.
NoSrc == [id |-> -1, key |-> "", idx |-> 0]
NewBullet(oid, position, velocity, src) ==
  [oid |-> oid, position |-> position, velocity |-> velocity, radius |-> 10, src |-> src]

\* faulty variant: Bullet.update that also changes the velocity
BulletUpdate_AlsoVelocity(b, deltaTime) ==
  [b EXCEPT !.position = Vec(b.position.x + b.velocity.x * deltaTime,
                             b.position.y + b.velocity.y * deltaTime),
            !.velocity = Vec(b.velocity.x + deltaTime, b.velocity.y + deltaTime)]
\* Bullet.update: position.x += velocity.x * deltaTime, the same for y
BulletUpdate(b, deltaTime) ==
  [b EXCEPT !.position = Vec(b.position.x + b.velocity.x * deltaTime,
                             b.position.y + b.velocity.y * deltaTime)]

-----------------------------------------------------------------------------
(* Camera and DebugCamera (Scene.ts) *)

\* canvas.width = window.innerWidth, canvas.height = window.innerHeight
CanvasWidth == 800
CanvasHeight == 600
\* private FOLLOW_DISTANCE = 50
FOLLOW_DISTANCE == 50
\* private lerpFactor = 0.1, as the divisor 1 / lerpFactor
LerpDivisor == 10
\* `this.shakeTimeElapsed <= 0.5`, in milliseconds
ShakeMillis == 500

Abs(n) == IF n < 0 THEN -n ELSE n
Sign(n) == IF n > 0 THEN 1 ELSE IF n < 0 THEN -1 ELSE 0
Min(a, b) == IF a <= b THEN a ELSE b
Max(a, b) == IF a >= b THEN a ELSE b
\* n / d rounded toward zero
DivTowardZero(n, d) == IF n >= 0 THEN n \div d ELSE -((-n) \div d)

\* Math.sin(50 * t) for t milliseconds, in 1/1000: the angle 50 * t / 1000 rad is
\* 5 * t centiradians; Bhaskara's rational approximation on [0, pi], pi = 314 centiradians.
HalfWave(a) == (16000 * (a * (314 - a))) \div (492980 - 4 * (a * (314 - a)))
SinMilli(t) ==
  LET a == (5 * t) % 628
  IN IF a <= 314 THEN HalfWave(a) ELSE -HalfWave(a - 314)
\* faulty variant: sin(50 t) / t without the test for t = 0, where 0 / 0 is NaN
ShakeOffset_NoGuard(t) ==
  IF t = 0 THEN NaN ELSE DivTowardZero(SinMilli(t) * Micro, t)
\* sin(50 t) / t in position units, 0 at t = 0
ShakeOffset(t) == IF t = 0 THEN 0 ELSE DivTowardZero(SinMilli(t) * Micro, t)

\* The value of the camera's destinationPosition(): "origin" is () => origin, any
\* other provider is the getPosition of the agent stored under that key.
DestinationOf(cam, pl) ==
  IF cam.destinationPosition = "origin" THEN origin
  ELSE getPosition(pl.val[cam.destinationPosition])

\* Camera constructor; a DebugCamera is a Camera centred on origin with debugOn,
\* keysDown and one debug line.  `canvas` is the size of the global canvas the
\* camera reads (width in x, height in y, in pixels); scale is in 1/1000.
NewCameraOn(kind, scale, canvas) ==
  [kind |-> kind,
   destinationPosition |-> "origin",
   pathPosition |-> origin,
   augmentedPosition |-> origin,
   scale |-> scale,
   axesRadii |-> Vec(scale * (canvas.x \div 2), scale * (canvas.y \div 2)),
   shakeTimeElapsed |-> 0,
   isShaking |-> FALSE,
   debugOn |-> (kind = "DebugCamera"),
   keysDown |-> <<>>,
   debugLines |-> IF kind = "DebugCamera" THEN 1 ELSE 0,
   canvas |-> canvas]
\* the cameras GameWorld constructs: default scale, the window's canvas
NewCamera(kind) == NewCameraOn(kind, Milli, Vec(CanvasWidth, CanvasHeight))

\* faulty variant: centerOn that binds the camera once and ignores later calls
centerOn_BindsOnce(cam, positionToCenter) ==
  IF cam.destinationPosition = "origin"
  THEN [cam EXCEPT !.destinationPosition = positionToCenter]
  ELSE cam
\* Camera.centerOn; the getPosition function of a player's agent is named by its key
centerOn(cam, positionToCenter) == [cam EXCEPT !.destinationPosition = positionToCenter]

\* faulty variant: Camera.shake that ends the shake without resetting its timer
shake_KeepsTimer(cam, deltaTime) ==
  IF cam.shakeTimeElapsed <= ShakeMillis
  THEN [cam EXCEPT !.isShaking = TRUE,
                   !.augmentedPosition =
                       addVectors(cam.pathPosition, Vec(0, ShakeOffset(cam.shakeTimeElapsed))),
                   !.shakeTimeElapsed = cam.shakeTimeElapsed + deltaTime]
  ELSE [cam EXCEPT !.isShaking = FALSE,
                   !.augmentedPosition = cam.pathPosition]
\* Camera.shake
shake(cam, deltaTime) ==
  IF cam.shakeTimeElapsed <= ShakeMillis
  THEN [cam EXCEPT !.isShaking = TRUE,
                   !.augmentedPosition =
                       addVectors(cam.pathPosition, Vec(0, ShakeOffset(cam.shakeTimeElapsed))),
                   !.shakeTimeElapsed = cam.shakeTimeElapsed + deltaTime]
  ELSE [cam EXCEPT !.shakeTimeElapsed = 0,
                   !.isShaking = FALSE,
                   !.augmentedPosition = cam.pathPosition]

\* faulty variant: follow step that clamps on the far side of the destination
FollowAxis_WrongSide(path, dest) ==
  LET diff == dest - path
  IN IF diff <= FOLLOW_DISTANCE * Micro
     THEN path + DivTowardZero(diff, LerpDivisor)
     ELSE dest + Sign(diff) * FOLLOW_DISTANCE * Micro
\* one axis of the follow step
FollowAxis(path, dest) ==
  LET diff == dest - path
  IN IF diff <= FOLLOW_DISTANCE * Micro
     THEN path + DivTowardZero(diff, LerpDivisor)
     ELSE dest - Sign(diff) * FOLLOW_DISTANCE * Micro

\* faulty variant: Camera.update that tests and moves each axis on its own
CameraUpdate_PerAxis(cam, pl, deltaTime) ==
  LET destPos == DestinationOf(cam, pl)
      diff == subractVectors(destPos, cam.pathPosition)
      moved == [cam EXCEPT !.pathPosition =
                  Vec(IF Abs(diff.x) > Micro
                      THEN FollowAxis(cam.pathPosition.x, destPos.x) ELSE cam.pathPosition.x,
                      IF Abs(diff.y) > Micro
                      THEN FollowAxis(cam.pathPosition.y, destPos.y) ELSE cam.pathPosition.y)]
  IN IF moved.isShaking
     THEN shake(moved, deltaTime)
     ELSE [moved EXCEPT !.augmentedPosition = moved.pathPosition]
\* faulty variant: Camera.update that leaves augmentedPosition alone when not shaking
CameraUpdate_KeepsAugmented(cam, pl, deltaTime) ==
  LET destPos == DestinationOf(cam, pl)
      diff == subractVectors(destPos, cam.pathPosition)
      moved == IF Abs(diff.x) > Micro \/ Abs(diff.y) > Micro
               THEN [cam EXCEPT !.pathPosition =
                                  Vec(FollowAxis(cam.pathPosition.x, destPos.x),
                                      FollowAxis(cam.pathPosition.y, destPos.y))]
               ELSE cam
  IN IF moved.isShaking THEN shake(moved, deltaTime) ELSE moved
\* Camera.update
CameraUpdate(cam, pl, deltaTime) ==
  LET destPos == DestinationOf(cam, pl)
      diff == subractVectors(destPos, cam.pathPosition)
      moved == IF Abs(diff.x) > Micro \/ Abs(diff.y) > Micro
               THEN [cam EXCEPT !.pathPosition =
                                  Vec(FollowAxis(cam.pathPosition.x, destPos.x),
                                      FollowAxis(cam.pathPosition.y, destPos.y))]
               ELSE cam
  IN IF moved.isShaking
     THEN shake(moved, deltaTime)
     ELSE [moved EXCEPT !.augmentedPosition = moved.pathPosition]

Includes(seq, e) == \E i \in DOMAIN seq : seq[i] = e

\* DebugCamera.update
DebugCameraUpdate(cam, pl, deltaTime) ==
  IF cam.debugOn
  THEN LET vel == 50 * Micro
           a1 == IF Includes(cam.keysDown, "ArrowUp")
                 THEN addVectors(Vec(0, -vel), cam.augmentedPosition)
                 ELSE IF Includes(cam.keysDown, "ArrowDown")
                      THEN addVectors(Vec(0, vel), cam.augmentedPosition)
                      ELSE cam.augmentedPosition
           a2 == IF Includes(cam.keysDown, "ArrowRight")
                 THEN addVectors(Vec(vel, 0), a1)
                 ELSE IF Includes(cam.keysDown, "ArrowLeft")
                      THEN addVectors(Vec(-vel, 0), a1)
                      ELSE a1
           panned == [cam EXCEPT !.augmentedPosition = a2]
       IN IF panned.isShaking THEN shake(panned, deltaTime) ELSE panned
  ELSE CameraUpdate(cam, pl, deltaTime)

\* camera.update(deltaTime), dispatched on the object's class
UpdateCamera(cam, pl, deltaTime) ==
  IF cam.kind = "DebugCamera"
  THEN DebugCameraUpdate(cam, pl, deltaTime)
  ELSE CameraUpdate(cam, pl, deltaTime)

\* faulty variant: keydown listener whose test of the key is always true (e.key = 's')
onKeydown_ShakesOnAnyKey(cam, key) ==
  LET pushed == [cam EXCEPT !.keysDown = Append(cam.keysDown, key)]
      toggled == IF key = " " THEN [pushed EXCEPT !.debugOn = ~pushed.debugOn] ELSE pushed
  IN shake(toggled, 0)
\* DebugCamera's keydown listener
onKeydown(cam, key) ==
  LET pushed == [cam EXCEPT !.keysDown = Append(cam.keysDown, key)]
      toggled == IF key = " " THEN [pushed EXCEPT !.debugOn = ~pushed.debugOn] ELSE pushed
  IN IF key = "s" THEN shake(toggled, 0) ELSE toggled

\* DebugCamera's keyup listener
onKeyup(cam, key) ==
  [cam EXCEPT !.keysDown = SelectSeq(cam.keysDown, LAMBDA k : k # key)]

\* DebugCamera's wheel listener: scale += deltaY * -0.01, restricted to [.125, 3]
onWheel(cam, deltaY) ==
  [cam EXCEPT !.scale = Min(Max(125, cam.scale - 10 * deltaY), 3000)]

-----------------------------------------------------------------------------
(* Server (ServerMock / LiveServer) *)

NewServer == [updateObservers |-> <<>>, providing |-> 0, nextUid |-> 1]

addUpdateListener(srv, listener) ==
  [srv EXCEPT !.updateObservers = Append(srv.updateObservers, listener)]
startProvidingUpdates(srv) == [srv EXCEPT !.providing = srv.providing + 1]

\* ServerUpdateManager.beginRequestingUpdates, as its effect on the server
beginRequestingUpdates(srv) ==
  startProvidingUpdates(addUpdateListener(srv, "acceptUpdate"))

\* broadcastUpdate: every observer (each the manager's acceptUpdate) is called in turn
RECURSIVE broadcastUpdate(_, _, _)
broadcastUpdate(m, observers, update) ==
  IF observers = <<>> THEN m
  ELSE broadcastUpdate(acceptUpdate(m, update), Tail(observers), update)

-----------------------------------------------------------------------------
(* GameWorld.gameLoop: the body of a step that fires, as a sequence of stages on *)
(* the record w = [sum, players, bullets, camera, nextOid, created, log].  Each   *)
(* stage appends to w.log the calls it makes, in the order it makes them.        *)

Ev(op, key) == [op |-> op, key |-> key]
Logged(w, op, key) == [w EXCEPT !.log = Append(w.log, Ev(op, key))]

\* ctx.clearRect
StageClear(w) == Logged(w, "clearRect", "")

\* faulty variant: player ingest that calls getServerUpdate before it creates the Agent
IngestPlayer_UpdateBeforeCreate(w, playerID, state, debug) ==
  LET playerIsNew == ~hasOwnProperty(w.players, playerID)
      called == Logged([w EXCEPT !.players.val[playerID] =
                                   AgentGetServerUpdate(w.players.val[playerID], state)],
                       "getServerUpdate", playerID)
      a == NewAgent(called.nextOid, state)
      cam1 == centerOn(called.camera, playerID)
      cam2 == IF debug THEN [cam1 EXCEPT !.debugLines = cam1.debugLines + 2] ELSE cam1
  IN IF playerIsNew
     THEN Logged([called EXCEPT !.players = MapPut(called.players, playerID, a),
                                !.camera = cam2,
                                !.nextOid = called.nextOid + 1,
                                !.created = called.created + 1], "newAgent", playerID)
     ELSE called
\* faulty variant: player ingest that treats every player as new
IngestPlayer_AlwaysNew(w, playerID, state, debug) ==
  LET a == NewAgent(w.nextOid, state)
      cam1 == centerOn(w.camera, playerID)
      cam2 == IF debug THEN [cam1 EXCEPT !.debugLines = cam1.debugLines + 2] ELSE cam1
      made == Logged([w EXCEPT !.players = MapPut(w.players, playerID, a),
                               !.camera = cam2,
                               !.nextOid = w.nextOid + 1,
                               !.created = w.created + 1], "newAgent", playerID)
  IN Logged([made EXCEPT !.players.val[playerID] =
                           AgentGetServerUpdate(made.players.val[playerID], state)],
            "getServerUpdate", playerID)
\* one iteration of `for (let playerID in serverUpdate.players)`
IngestPlayer(w, playerID, state, debug) ==
  LET playerIsNew == ~hasOwnProperty(w.players, playerID)
      a == NewAgent(w.nextOid, state)
      cam1 == centerOn(w.camera, playerID)
      cam2 == IF debug THEN [cam1 EXCEPT !.debugLines = cam1.debugLines + 2] ELSE cam1
      made == IF playerIsNew
              THEN Logged([w EXCEPT !.players = MapPut(w.players, playerID, a),
                                    !.camera = cam2,
                                    !.nextOid = w.nextOid + 1,
                                    !.created = w.created + 1], "newAgent", playerID)
              ELSE w
  IN Logged([made EXCEPT !.players.val[playerID] =
                           AgentGetServerUpdate(made.players.val[playerID], state)],
            "getServerUpdate", playerID)

RECURSIVE IngestPlayers(_, _, _, _)
IngestPlayers(w, serverUpdate, keys, debug) ==
  IF keys = <<>> THEN w
  ELSE IngestPlayers(IngestPlayer(w, Head(keys), serverUpdate.players.val[Head(keys)], debug),
                     serverUpdate, Tail(keys), debug)

\* `for (let bullet of playerBullets)`: construct and push, from index i on
RECURSIVE PushBullets(_, _, _, _, _)
PushBullets(w, uid, bulletID, playerBullets, i) ==
  IF i > Len(playerBullets) THEN w
  ELSE LET b == NewBullet(w.nextOid, playerBullets[i].position, playerBullets[i].velocity,
                          [id |-> uid, key |-> bulletID, idx |-> i])
       IN PushBullets([w EXCEPT !.bullets.val[bulletID] = Append(@, b),
                                !.nextOid = w.nextOid + 1],
                      uid, bulletID, playerBullets, i + 1)

\* faulty variant: bullet ingest that empties a group only when it is new
IngestBulletGroup_Appends(w, uid, bulletID, playerBullets) ==
  LET kept == IF hasOwnProperty(w.bullets, bulletID) THEN w
              ELSE [w EXCEPT !.bullets = MapPut(w.bullets, bulletID, <<>>)]
  IN Logged(PushBullets(kept, uid, bulletID, playerBullets, 1), "replaceBullets", bulletID)

\* one iteration of `for (let bulletID in serverUpdate.bullets)`
IngestBulletGroup(w, uid, bulletID, playerBullets) ==
  LET emptied == [w EXCEPT !.bullets = MapPut(w.bullets, bulletID, <<>>)]
  IN Logged(PushBullets(emptied, uid, bulletID, playerBullets, 1), "replaceBullets", bulletID)

\* faulty variant: the loop ends by emptying the groups the snapshot does not mention
RECURSIVE IngestBullets_DropsAbsent(_, _, _)
IngestBullets_DropsAbsent(w, serverUpdate, keys) ==
  IF keys = <<>>
  THEN [w EXCEPT !.bullets.val =
          [k \in DOMAIN @ |-> IF hasOwnProperty(serverUpdate.bullets, k) THEN @[k] ELSE <<>>]]
  ELSE IngestBullets_DropsAbsent(IngestBulletGroup(w, serverUpdate.id, Head(keys),
                                                   serverUpdate.bullets.val[Head(keys)]),
                                 serverUpdate, Tail(keys))

RECURSIVE IngestBullets(_, _, _)
IngestBullets(w, serverUpdate, keys) ==
  IF keys = <<>> THEN w
  ELSE IngestBullets(IngestBulletGroup(w, serverUpdate.id, Head(keys),
                                       serverUpdate.bullets.val[Head(keys)]),
                     serverUpdate, Tail(keys))

\* `if (this.serverUpdateManager.hasUpdate()) { ... }`
StageIngest(w, debug) ==
  IF hasUpdate(w.sum)
  THEN LET got == getUpdate(w.sum)
           serverUpdate == got.ret
           w0 == Logged([w EXCEPT !.sum = got.m], "getUpdate", "")
           w1 == IngestPlayers(w0, serverUpdate, serverUpdate.players.order, debug)
       IN IngestBullets(w1, serverUpdate, serverUpdate.bullets.order)
  ELSE w

\* `for (let playerID of Object.keys(this.players))`: player.update
RECURSIVE AdvancePlayers(_, _, _)
AdvancePlayers(w, keys, deltaTime) ==
  IF keys = <<>> THEN w
  ELSE AdvancePlayers(
         Logged([w EXCEPT !.players.val[Head(keys)] = AgentUpdate(@, deltaTime)],
                "Agent.update", Head(keys)),
         Tail(keys), deltaTime)
StageAdvancePlayers(w, deltaTime) == AdvancePlayers(w, w.players.order, deltaTime)

\* Bullet.update writes position.x and position.y in place: when the position object
\* is a vector of the snapshot the manager still holds, the snapshot changes with it.
WriteThrough(sum, b) ==
  IF b.src.id = sum.mostRecentUpdate.id /\ b.src.id # NoSrc.id
  THEN [sum EXCEPT !.mostRecentUpdate.bullets.val[b.src.key][b.src.idx].position = b.position]
  ELSE sum

\* `for (let bullet of this.bullets[bulletID])`: bullet.update, from index i on
RECURSIVE AdvanceGroup(_, _, _, _)
AdvanceGroup(w, bulletID, i, deltaTime) ==
  IF i > Len(w.bullets.val[bulletID]) THEN w
  ELSE LET b == BulletUpdate(w.bullets.val[bulletID][i], deltaTime)
       IN AdvanceGroup(
            Logged([w EXCEPT !.bullets.val[bulletID][i] = b,
                             !.sum = WriteThrough(w.sum, b)],
                   "Bullet.update", bulletID),
            bulletID, i + 1, deltaTime)

\* `for (let bulletID of Object.keys(this.bullets))`
RECURSIVE AdvanceBullets(_, _, _)
AdvanceBullets(w, keys, deltaTime) ==
  IF keys = <<>> THEN w
  ELSE AdvanceBullets(AdvanceGroup(w, Head(keys), 1, deltaTime), Tail(keys), deltaTime)
StageAdvanceBullets(w, deltaTime) == AdvanceBullets(w, w.bullets.order, deltaTime)

\* this.camera.update(deltaTime)
StageCameraUpdate(w, deltaTime) ==
  Logged([w EXCEPT !.camera = UpdateCamera(w.camera, w.players, deltaTime)], "camera.update", "")

\* this.camera.renderAll(), then displayDebugMenu() in debug mode: draw calls only
StageRender(w, debug) ==
  LET r == Logged(w, "renderAll", "")
  IN IF debug THEN Logged(r, "displayDebugMenu", "") ELSE r

\* faulty variant: step body that advances the entities before it ingests the snapshot
FiredStep_AdvanceFirst(w, deltaTime, debug) ==
  StageRender(
    StageCameraUpdate(
      StageIngest(
        StageAdvanceBullets(
          StageAdvancePlayers(StageClear(w), deltaTime),
          deltaTime),
        debug),
      deltaTime),
    debug)
\* the body of `if (this.millisPassedSinceLastFrame >= millisPerFrame) { ... }`
FiredStep(w, deltaTime, debug) ==
  StageRender(
    StageCameraUpdate(
      StageAdvanceBullets(
        StageAdvancePlayers(
          StageIngest(StageClear(w), debug),
          deltaTime),
        deltaTime),
      deltaTime),
    debug)

\* getScene: the players' agents, then every group's bullets
RECURSIVE Flatten(_)
Flatten(seqs) == IF seqs = <<>> THEN <<>> ELSE Head(seqs) \o Flatten(Tail(seqs))
ValuesOf(m) == [i \in DOMAIN m.order |-> m.val[m.order[i]]]
getScene == ValuesOf(players) \o Flatten(ValuesOf(bullets))

-----------------------------------------------------------------------------
(* GameWorld.gameLoop *)

\* faulty variant: request-once guard that never sets isRequestingUpdates
RequestOnce_FlagNotSet(requesting, srv) ==
  IF ~requesting
  THEN [server |-> beginRequestingUpdates(srv), isRequestingUpdates |-> FALSE, calls |-> 1]
  ELSE [server |-> srv, isRequestingUpdates |-> requesting, calls |-> 0]
\* `if (!this.isRequestingUpdates) { beginRequestingUpdates(); isRequestingUpdates = true }`:
\* the server, the flag and the number of beginRequestingUpdates calls made
RequestOnce(requesting, srv) ==
  IF ~requesting
  THEN [server |-> beginRequestingUpdates(srv), isRequestingUpdates |-> TRUE, calls |-> 1]
  ELSE [server |-> srv, isRequestingUpdates |-> requesting, calls |-> 0]

\* faulty variant: accumulator that holds the time of the last invocation only
Accumulate_DropsCarry(millis, now, bef) == now - bef
\* `this.millisPassedSinceLastFrame += now - this.before`
Accumulate(millis, now, bef) == millis + (now - bef)

\* `this.millisPassedSinceLastFrame >= 1000 / constants.FPS`
StepFires(millis) == millis * FPS >= MillisPerSecond

\* faulty variant: step end that does not zero the accumulator
AfterStep_NotReset(millis) == millis
\* `this.millisPassedSinceLastFrame = 0` at the end of a step that fired
AfterStep(millis) == 0

\* faulty variant: invocation end that schedules nothing
requestAnimationFrame_Dropped(scheduled) == scheduled
\* `requestAnimationFrame(this.gameLoop)`: one more invocation is scheduled
requestAnimationFrame(scheduled) == scheduled + 1

\* `this.before = now`
BeforeAfterTick(now, bef) == now

\* inputs the environment may deliver
Deltas == {16, 40}
InputKeys == {"ArrowUp", "s"}
WheelDeltas == {-100}

\* lastOp: the method called last on a directly driven object, with its argument,
\* what it returned and what the previous getUpdate returned
NoOp ==
  [op |-> "new", dt |-> 0, hadUpdate |-> FALSE, ret |-> EmptyUpdate,
   prevRet |-> EmptyUpdate, arg |-> AgentStateOf(0, 0, 0, 0, 0, 0, 0)]

\* hist: the number of gameLoop invocations, input events and direct calls made; the
\* number of beginRequestingUpdates calls and of Agents constructed; the player keys
\* of the snapshots consumed; of the last gameLoop invocation, whether its step
\* fired, the deltaTime it used, the calls it made in order and whether a snapshot
\* was pending; the acceptUpdate calls the last broadcast made; and, for a directly
\* driven manager, the ids accepted since the last getUpdate, those that had been
\* accepted when the last getUpdate was called, the ids of snapshots that were
\* followed by another acceptUpdate before any getUpdate, the ids returned and the
\* snapshot the last getUpdate returned; and, for a directly driven camera, the
\* deltaTime every update call is made with and the number of update calls made
\* since a shake was triggered on a camera that was not shaking (-1: none, or
\* another trigger came in between); the time passed to camera.update by the fired
\* steps, the gameLoop invocations scheduled and not yet run (index.ts makes the
\* first call), the ids of the snapshots consumed, and the states a directly driven
\* Agent's getServerUpdate received; and, for the IOManager and the KeyboardManager,
\* the index of the layout or listener the last event or call reached (-1: none) and
\* the number of listeners that ended with a TypeError
NoHist ==
  [ticks |-> 0, inputs |-> 0, calls |-> 0, beginCalls |-> 0, seenKeys |-> {},
   created |-> 0, fired |-> FALSE, dt |-> 0, log |-> <<>>, hadUpdate |-> FALSE,
   accepts |-> 0, pending |-> <<>>, batch |-> <<>>, dropped |-> {}, returned |-> {},
   lastRet |-> EmptyUpdate, fixedDt |-> 0, sinceShake |-> -1, drawn |-> <<>>,
   plain |-> <<>>, held |-> {}, received |-> <<>>,
   advanced |-> 0, scheduled |-> 1, applied |-> <<>>, reached |-> -1, thrown |-> 0]

\* the drawing context as the browser creates it, an IOManager without layouts, no
\* message sent, and no vector handed to VectorMath
NewContext == [strokeStyle |-> "black", lineWidth |-> 1]
\* IOManager constructor; layouts[i] and cameras[i] are the keyboardLayout and the
\* camera of the i-th pair
NewIOManager == [layouts |-> <<>>, cameras |-> <<>>, currLayoutIdx |-> 0, keysDown |-> <<>>]
\* KeyboardManager constructor: listeners[0] = doNothingKeyboardLayout
NewKeyboardManager == [listeners |-> <<"doNothing">>, currListenerIdx |-> 0]
PeripheralsNew ==
  /\ vec1 = origin
  /\ vec2 = origin
  /\ ctx = NewContext
  /\ ioManager = NewIOManager
  /\ keyboardManager = NewKeyboardManager
  /\ outbound = <<>>
PeripheralsIdle == UNCHANGED <<vec1, vec2, ctx, ioManager,
              keyboardManager, outbound>>

\* the objects index.ts and the GameWorld constructor build
InitWorld(debug) ==
  /\ serverUpdateManager = NewServerUpdateManager
  /\ server = NewServer
  /\ players = EmptyMap
  /\ bullets = EmptyMap
  /\ isRequestingUpdates = FALSE
  /\ clock = 0
  /\ before = 0
  /\ millisPassedSinceLastFrame = 0
  /\ debugMode = debug
  /\ camera = NewCamera(IF debug THEN "DebugCamera" ELSE "Camera")
  /\ nextOid = 1
  /\ hist = NoHist
  /\ lastOp = NoOp
  /\ PeripheralsNew

UnitObjectsIdle ==
  /\ agent = NewAgent(0, AgentStateOf(0, 0, 0, 0, 0, 0, 0))
  /\ bullet = NewBullet(0, origin, origin, NoSrc)

Init ==
  /\ \E debug \in BOOLEAN : InitWorld(debug)
  /\ UnitObjectsIdle

\* one invocation of gameLoop, Date.now() having advanced by d since the last one
GameLoop(d) ==
  /\ hist.ticks < MaxTicks
  /\ hist.scheduled > 0
  /\ LET now == clock + d
         req == RequestOnce(isRequestingUpdates, server)
         millis == Accumulate(millisPassedSinceLastFrame, now, before)
         w0 == [sum |-> serverUpdateManager, players |-> players, bullets |-> bullets,
                camera |-> camera, nextOid |-> nextOid, created |-> hist.created,
                log |-> <<>>]
         w1 == IF StepFires(millis) THEN FiredStep(w0, millis, debugMode) ELSE w0
         consumed == StepFires(millis) /\ hasUpdate(serverUpdateManager)
     IN /\ clock' = now
        /\ server' = req.server
        /\ isRequestingUpdates' = req.isRequestingUpdates
        /\ serverUpdateManager' = w1.sum
        /\ players' = w1.players
        /\ bullets' = w1.bullets
        /\ camera' = w1.camera
        /\ nextOid' = w1.nextOid
        /\ millisPassedSinceLastFrame' = IF StepFires(millis) THEN AfterStep(millis) ELSE millis
        /\ before' = BeforeAfterTick(now, before)
        /\ hist' = [hist EXCEPT !.ticks = @ + 1,
                                !.beginCalls = @ + req.calls,
                                !.created = w1.created,
                                !.seenKeys = IF consumed
                                             THEN @ \cup SeqRange(serverUpdateManager.mostRecentUpdate.players.order)
                                             ELSE @,
                                !.fired = (w1.log # <<>>),
                                !.dt = millis,
                                !.advanced = IF StepFires(millis) THEN @ + millis ELSE @,
                                !.scheduled = requestAnimationFrame(@ - 1),
                                !.applied = IF consumed
                                            THEN Append(@, serverUpdateManager.mostRecentUpdate.id)
                                            ELSE @,
                                !.log = w1.log,
                                !.hadUpdate = hasUpdate(serverUpdateManager)]
  /\ UNCHANGED <<debugMode, agent, bullet, lastOp>>
  /\ PeripheralsIdle

\* the server creates a snapshot object and broadcasts it to its observers
Broadcast(c) ==
  /\ server.providing > 0
  /\ server.nextUid <= MaxUpdates
  /\ serverUpdateManager' = broadcastUpdate(serverUpdateManager, server.updateObservers,
                                            ServerUpdateOf(server.nextUid, c))
  /\ server' = [server EXCEPT !.nextUid = @ + 1]
  /\ hist' = [hist EXCEPT !.accepts = Len(server.updateObservers)]
  /\ UNCHANGED <<players, bullets, isRequestingUpdates, before, millisPassedSinceLastFrame,
                 camera, debugMode, clock, nextOid, agent, bullet, lastOp>>
  /\ PeripheralsIdle

\* the listeners the DebugCamera constructor registers on document
InputFrame ==
  /\ camera.kind = "DebugCamera"
  /\ hist.inputs < MaxInputs
  /\ hist' = [hist EXCEPT !.inputs = @ + 1]
  /\ UNCHANGED <<serverUpdateManager, server, players, bullets, isRequestingUpdates, before,
                 millisPassedSinceLastFrame, debugMode, clock, nextOid, agent, bullet, lastOp>>
  /\ PeripheralsIdle

KeyDown(key) ==
  /\ InputFrame
  /\ camera' = onKeydown(camera, key)

KeyUp(key) ==
  /\ InputFrame
  /\ Includes(camera.keysDown, key)
  /\ camera' = onKeyup(camera, key)

Wheel(deltaY) ==
  /\ InputFrame
  /\ camera' = onWheel(camera, deltaY)

Next ==
  \/ \E d \in Deltas : GameLoop(d)
  \/ \E c \in Contents : Broadcast(c)
  \/ \E key \in InputKeys : KeyDown(key)
  \/ \E key \in InputKeys : KeyUp(key)
  \/ \E deltaY \in WheelDeltas : Wheel(deltaY)

Spec == Init /\ [][Next]_vars

-----------------------------------------------------------------------------
(* A ServerUpdateManager driven directly through its public methods *)

WorldIdle ==
  UNCHANGED <<players, bullets, isRequestingUpdates, before, millisPassedSinceLastFrame,
              camera, debugMode, clock, nextOid, vec1, vec2, ctx, ioManager,
              keyboardManager, outbound>>

InitSUM ==
  /\ InitWorld(FALSE)
  /\ UnitObjectsIdle

\* acceptUpdate(u), u a snapshot object the caller has just created
CallAcceptUpdate(c) ==
  /\ hist.calls < MaxCalls
  /\ serverUpdateManager' = acceptUpdate(serverUpdateManager,
                                         ServerUpdateOf(server.nextUid, c))
  /\ server' = [server EXCEPT !.nextUid = @ + 1]
  /\ hist' = [hist EXCEPT !.calls = @ + 1,
                          !.pending = Append(@, server.nextUid),
                          !.dropped = @ \cup SeqRange(hist.pending)]
  /\ lastOp' = [NoOp EXCEPT !.op = "acceptUpdate",
                            !.hadUpdate = hasUpdate(serverUpdateManager),
                            !.prevRet = hist.lastRet]
  /\ WorldIdle
  /\ UNCHANGED <<agent, bullet>>

\* getUpdate()
CallGetUpdate ==
  /\ hist.calls < MaxCalls
  /\ LET r == getUpdate(serverUpdateManager)
     IN /\ serverUpdateManager' = r.m
        /\ hist' = [hist EXCEPT !.calls = @ + 1,
                                !.batch = hist.pending,
                                !.pending = <<>>,
                                !.returned = @ \cup {r.ret.id},
                                !.lastRet = r.ret]
        /\ lastOp' = [NoOp EXCEPT !.op = "getUpdate",
                                  !.hadUpdate = hasUpdate(serverUpdateManager),
                                  !.ret = r.ret,
                                  !.prevRet = hist.lastRet]
  /\ WorldIdle
  /\ UNCHANGED <<server, agent, bullet>>

NextSUM ==
  \/ \E c \in Contents : CallAcceptUpdate(c)
  \/ CallGetUpdate

SpecSUM == InitSUM /\ [][NextSUM]_vars

-----------------------------------------------------------------------------
(* An Agent and a Bullet driven directly through their public methods *)

\* the Agent of the worked example, one at rest elsewhere, and one accelerating
AgentStates ==
  {AgentStateOf(0, 0, 10, 0, 0, 0, 0), AgentStateOf(5, 5, 0, 0, 0, 0, 0),
   AgentStateOf(1, 2, 3, -4, 5, -6, 1571)}
\* deltaTime values in milliseconds: one frame and the example's full second
UnitDeltas == {16, 1000}

InitAgent ==
  /\ InitWorld(FALSE)
  /\ \E st \in AgentStates : agent = NewAgent(0, st)
  /\ bullet = NewBullet(0, Vec(0, 50 * Micro), Vec(50 * Milli, -20 * Milli), NoSrc)

CallAgentUpdate(deltaTime) ==
  /\ hist.calls < MaxCalls
  /\ agent' = AgentUpdate(agent, deltaTime)
  /\ hist' = [hist EXCEPT !.calls = @ + 1]
  /\ lastOp' = [NoOp EXCEPT !.op = "Agent.update", !.dt = deltaTime]
  /\ WorldIdle
  /\ UNCHANGED <<serverUpdateManager, server, bullet>>

CallAgentGetServerUpdate(newState) ==
  /\ hist.calls < MaxCalls
  /\ agent' = AgentGetServerUpdate(agent, newState)
  /\ hist' = [hist EXCEPT !.calls = @ + 1, !.received = Append(@, newState)]
  /\ lastOp' = [NoOp EXCEPT !.op = "Agent.getServerUpdate", !.arg = newState]
  /\ WorldIdle
  /\ UNCHANGED <<serverUpdateManager, server, bullet>>

CallBulletUpdate(deltaTime) ==
  /\ hist.calls < MaxCalls
  /\ bullet' = BulletUpdate(bullet, deltaTime)
  /\ hist' = [hist EXCEPT !.calls = @ + 1]
  /\ lastOp' = [NoOp EXCEPT !.op = "Bullet.update", !.dt = deltaTime]
  /\ WorldIdle
  /\ UNCHANGED <<serverUpdateManager, server, agent>>

NextAgent ==
  \/ \E deltaTime \in UnitDeltas : CallAgentUpdate(deltaTime)
  \/ \E newState \in AgentStates : CallAgentGetServerUpdate(newState)
  \/ \E deltaTime \in UnitDeltas : CallBulletUpdate(deltaTime)

SpecAgent == InitAgent /\ [][NextAgent]_vars

-----------------------------------------------------------------------------
(* Claims about the ServerUpdateManager (checked under SpecSUM) *)

\* C1: when snapshots u1..un were accepted with no getUpdate in between, the next
\* getUpdate returns un, and no getUpdate ever returns a snapshot that was followed
\* by another acceptUpdate before it could be consumed (u1..u(n-1)): one pending
\* slot, overwritten, no queue.
C1_LatestWins ==
  /\ (lastOp.op = "getUpdate" /\ hist.batch # <<>>) =>
        /\ lastOp.ret.id = Last(hist.batch)
        /\ hist.lastRet = lastOp.ret
  /\ hist.dropped \cap hist.returned = {}
  /\ hist.pending # <<>> => serverUpdateManager.mostRecentUpdate.id = Last(hist.pending)

\* three snapshots accepted in a row, then a getUpdate
C1_Witness ==
  /\ lastOp.op = "getUpdate"
  /\ Len(hist.batch) >= 3
  /\ Cardinality(hist.dropped) >= 2
  /\ lastOp.ret.id = 3

\* C2: hasUpdate() is false on a new manager, true from any acceptUpdate to the next
\* getUpdate and false from a getUpdate to the next acceptUpdate; a getUpdate made
\* while it is false leaves it false and returns what the previous getUpdate
\* returned (the initial empty snapshot when there was none).
C2_FlagProtocol ==
  /\ lastOp.op = "new" => ~hasUpdate(serverUpdateManager)
  /\ lastOp.op = "acceptUpdate" => hasUpdate(serverUpdateManager)
  /\ lastOp.op = "getUpdate" => ~hasUpdate(serverUpdateManager)
  /\ (lastOp.op = "getUpdate" /\ ~lastOp.hadUpdate) => lastOp.ret = lastOp.prevRet
  /\ (lastOp.op = "getUpdate" /\ hist.returned = {0}) => lastOp.ret = EmptyUpdate

\* a getUpdate with nothing pending that returns again a snapshot consumed earlier
C2_Witness ==
  /\ lastOp.op = "getUpdate"
  /\ ~lastOp.hadUpdate
  /\ lastOp.ret.id > 0
  /\ lastOp.ret = lastOp.prevRet
  /\ ~hasUpdate(serverUpdateManager)

-----------------------------------------------------------------------------
(* Claims about Agent and Bullet (checked under SpecAgent) *)

\* C9 as the specification states it: after Agent.getServerUpdate(newState) the live
\* position, velocity, acceleration and orientation are those of newState.
C9_SnapsToNewState ==
  lastOp.op = "Agent.getServerUpdate" =>
    /\ getPosition(agent) = lastOp.arg.position
    /\ agent.velocity = lastOp.arg.velocity
    /\ agent.acceleration = lastOp.arg.acceleration
    /\ agent.orientation = lastOp.arg.orientation

LiveIs(a, st) ==
  /\ getPosition(a) = st.position
  /\ a.velocity = st.velocity
  /\ a.acceleration = st.acceleration
  /\ a.orientation = st.orientation

\* C32: after the n-th getServerUpdate on an agent, n >= 2, its live position,
\* velocity, acceleration and orientation are those of the state the (n-1)-th call
\* received, whatever update calls were made in between; and a getServerUpdate that
\* follows the constructor with the constructor's state leaves them at that state.
C32_JumpsToPreviousState ==
  /\ [](( /\ lastOp.op = "Agent.getServerUpdate"
          /\ Len(hist.received) >= 2 ) =>
          LiveIs(agent, hist.received[Len(hist.received) - 1]))
  /\ [][( /\ lastOp'.op = "Agent.getServerUpdate"
          /\ hist.calls = 0
          /\ agent = NewAgent(0, lastOp'.arg) ) =>
          LiveIs(agent', lastOp'.arg)]_vars

\* three states received with update calls in between: the agent is at the second
\* one, not where the updates had taken it and not at the third
C32_Witness ==
  /\ lastOp.op = "Agent.getServerUpdate"
  /\ hist.calls = 5
  /\ Len(hist.received) = 3
  /\ hist.received[2] = AgentStateOf(1, 2, 3, -4, 5, -6, 1571)
  /\ hist.received[3] = AgentStateOf(5, 5, 0, 0, 0, 0, 0)
  /\ LiveIs(agent, hist.received[2])

-----------------------------------------------------------------------------
(* Claims about the GameWorld (checked under Spec) *)

\* the camera state C3 lists
ListedCameraState(cam) ==
  <<cam.pathPosition, cam.augmentedPosition, cam.scale, cam.isShaking, cam.shakeTimeElapsed>>
\* what a step that is no gameLoop invocation was: a broadcast creates a snapshot, a
\* keydown lengthens keysDown, a keyup shortens it, a wheel event does neither
IsTick == hist'.ticks # hist.ticks
IsBroadcast == server'.nextUid # server.nextUid
IsKeydown == Len(camera'.keysDown) > Len(camera.keysDown)
IsKeyup == Len(camera'.keysDown) < Len(camera.keysDown)
IsWheel == hist'.inputs # hist.inputs /\ camera'.keysDown = camera.keysDown

\* C3 as stated: players, bullets and the listed camera state change only in a
\* gameLoop invocation; the snapshot listener and the keydown, keyup and wheel
\* handlers leave all of them unchanged.
C3_AsStated ==
  [][~IsTick => /\ players' = players
                /\ bullets' = bullets
                /\ ListedCameraState(camera') = ListedCameraState(camera)]_vars

\* C3 amended: players, bullets and the camera's pathPosition change only in a
\* gameLoop invocation.  The snapshot listener changes nothing but the manager's
\* pending snapshot and flag; keyup leaves all the listed camera state unchanged;
\* the wheel handler changes of it only scale (kept within [.125, 3]); keydown leaves
\* scale unchanged and, for a key other than 's', the rest of it too, while 's'
\* calls shake(0), which may set isShaking and augmentedPosition, or end a shake
\* that has run its time.
C3_OnlyTickMovesEntities ==
  [][~IsTick =>
       /\ players' = players
       /\ bullets' = bullets
       /\ camera'.pathPosition = camera.pathPosition
       /\ IsBroadcast =>
            /\ camera' = camera
            /\ <<isRequestingUpdates, before, millisPassedSinceLastFrame, nextOid>>' =
                 <<isRequestingUpdates, before, millisPassedSinceLastFrame, nextOid>>
            /\ hasUpdate(serverUpdateManager')
            /\ serverUpdateManager'.mostRecentUpdate.id = server.nextUid
       /\ IsKeyup => ListedCameraState(camera') = ListedCameraState(camera)
       /\ IsWheel =>
            /\ camera' = [camera EXCEPT !.scale = camera'.scale]
            /\ camera'.scale >= 125 /\ camera'.scale <= 3000
       /\ IsKeydown =>
            /\ camera'.scale = camera.scale
            /\ Last(camera'.keysDown) # "s" =>
                 ListedCameraState(camera') = ListedCameraState(camera)
            /\ Last(camera'.keysDown) = "s" =>
                 \/ /\ camera.shakeTimeElapsed <= ShakeMillis
                    /\ camera'.isShaking
                    /\ camera'.shakeTimeElapsed = camera.shakeTimeElapsed
                 \/ /\ camera.shakeTimeElapsed > ShakeMillis
                    /\ ~camera'.isShaking
                    /\ camera'.shakeTimeElapsed = 0
                    /\ camera'.augmentedPosition = camera.pathPosition
    ]_vars

\* players are tracked, a snapshot is pending, the wheel has changed the scale and
\* 's' has started a shake
C3_Witness ==
  /\ players.order # <<>>
  /\ hasUpdate(serverUpdateManager)
  /\ camera.scale # Milli
  /\ camera.isShaking
  /\ hist.inputs >= 2

\* C4: however many times gameLoop runs, beginRequestingUpdates is called exactly
\* once, by the first invocation; exactly one listener is registered with the server
\* and every broadcast snapshot causes exactly one acceptUpdate.
C4_RequestsOnce ==
  /\ hist.beginCalls = (IF hist.ticks = 0 THEN 0 ELSE 1)
  /\ isRequestingUpdates <=> hist.ticks > 0
  /\ Len(server.updateObservers) = hist.beginCalls
  /\ server.providing = hist.beginCalls
  /\ server.nextUid > 1 => hist.accepts = 1

\* several invocations and several broadcasts
C4_Witness ==
  /\ hist.ticks >= 3
  /\ server.nextUid >= 3
  /\ hist.beginCalls = 1
  /\ hist.accepts = 1

\* C6: a gameLoop invocation performs a step iff the accumulator, after adding
\* now - before, is at least 1000 / FPS; a step that fires leaves the accumulator 0;
\* an invocation whose step does not fire keeps the accumulated value and leaves
\* players, bullets, camera and the pending flag unchanged; every invocation sets
\* before to now.
C6_FixedStep ==
  [][IsTick =>
       LET accumulated == millisPassedSinceLastFrame + (clock' - before)
       IN /\ hist'.fired <=> (accumulated * FPS >= MillisPerSecond)
          /\ hist'.fired => millisPassedSinceLastFrame' = 0
          /\ ~hist'.fired =>
               /\ millisPassedSinceLastFrame' = accumulated
               /\ players' = players
               /\ bullets' = bullets
               /\ camera' = camera
               /\ hasUpdate(serverUpdateManager') = hasUpdate(serverUpdateManager)
          /\ before' = clock'
    ]_vars

\* a step fired on time accumulated over two invocations none of which alone would
\* have reached the frame period
C6_Witness ==
  /\ hist.ticks = 3
  /\ hist.fired
  /\ hist.dt = 48
  /\ millisPassedSinceLastFrame = 0
  /\ before = clock

\* the place of a call in the order C5 states
Rank(op) ==
  CASE op = "clearRect" -> 0
    [] op = "getUpdate" -> 1
    [] op \in {"newAgent", "getServerUpdate"} -> 2
    [] op = "replaceBullets" -> 3
    [] op = "Agent.update" -> 4
    [] op = "Bullet.update" -> 5
    [] op = "camera.update" -> 6
    [] op = "renderAll" -> 7
    [] OTHER -> 8
\* the positions in log of the calls op, and of the calls op made for key
At(log, op) == {i \in DOMAIN log : log[i].op = op}
AtKey(log, op, key) == {i \in DOMAIN log : log[i] = Ev(op, key)}
RECURSIVE SumLen(_)
SumLen(seqs) == IF seqs = <<>> THEN 0 ELSE Len(Head(seqs)) + SumLen(Tail(seqs))

\* C5: in an invocation whose step fires the calls are made in this order: clear the
\* surface; consume the pending snapshot if there is one (players created or updated,
\* then bullet groups replaced); update every tracked player, then every tracked
\* bullet; camera.update; camera.renderAll.  camera.update is called exactly once,
\* before renderAll, and nothing is advanced before the snapshot has been ingested.
C5_StepOrder ==
  hist.fired =>
    LET log == hist.log
    IN /\ \A i, j \in DOMAIN log : i < j => Rank(log[i].op) <= Rank(log[j].op)
       /\ log[1].op = "clearRect"
       /\ Cardinality(At(log, "clearRect")) = 1
       /\ Cardinality(At(log, "getUpdate")) = (IF hist.hadUpdate THEN 1 ELSE 0)
       /\ ~hist.hadUpdate => \A i \in DOMAIN log : Rank(log[i].op) \notin {2, 3}
       /\ Cardinality(At(log, "camera.update")) = 1
       /\ Cardinality(At(log, "renderAll")) = 1
       /\ \A i \in At(log, "camera.update"), j \in At(log, "renderAll") : i < j
       /\ \A k \in DOMAIN players.val : Cardinality(AtKey(log, "Agent.update", k)) = 1
       /\ Cardinality(At(log, "Agent.update")) = Len(players.order)
       /\ \A k \in DOMAIN bullets.val :
            Cardinality(AtKey(log, "Bullet.update", k)) = Len(bullets.val[k])
       /\ Cardinality(At(log, "Bullet.update")) = SumLen(ValuesOf(bullets))

\* a step that consumed a snapshot naming a tracked and a new player, and advanced
\* two players and a bullet
C5_Witness ==
  /\ hist.fired
  /\ hist.hadUpdate
  /\ hist.created = 2
  /\ hist.ticks >= 2
  /\ Cardinality(At(hist.log, "newAgent")) = 1
  /\ Cardinality(At(hist.log, "getServerUpdate")) = 2
  /\ Cardinality(At(hist.log, "Bullet.update")) = 1

\* C7: the players map holds exactly one Agent per player key of the snapshots
\* consumed so far and getScene() lists each of them exactly once; consuming a
\* snapshot that names a tracked key calls getServerUpdate on the Agent already
\* there and constructs no second Agent and no second entry.
C7_OneAgentPerKey ==
  [][/\ DOMAIN players'.val = hist'.seenKeys
     /\ SeqRange(players'.order) = hist'.seenKeys
     /\ Len(players'.order) = Cardinality(hist'.seenKeys)
     /\ hist'.created = Cardinality(hist'.seenKeys)
     /\ LET scene == ValuesOf(players') \o Flatten(ValuesOf(bullets'))
        IN /\ \A k \in hist'.seenKeys :
                Cardinality({i \in DOMAIN scene : scene[i].oid = players'.val[k].oid}) = 1
           /\ Len(scene) = Len(players'.order) + SumLen(ValuesOf(bullets'))
     /\ (IsTick /\ hist'.fired /\ hist'.hadUpdate) =>
          \A k \in SeqRange(serverUpdateManager.mostRecentUpdate.players.order) :
            /\ Cardinality(AtKey(hist'.log, "getServerUpdate", k)) = 1
            /\ hasOwnProperty(players, k) =>
                 /\ players'.val[k].oid = players.val[k].oid
                 /\ AtKey(hist'.log, "newAgent", k) = {}
                 /\ players'.order[CHOOSE i \in DOMAIN players.order : players.order[i] = k] = k
            /\ ~hasOwnProperty(players, k) =>
                 /\ Cardinality(AtKey(hist'.log, "newAgent", k)) = 1
                 /\ players'.val[k].oid >= nextOid
    ]_vars

\* a snapshot naming a tracked player was consumed: two snapshots, one Agent made
C7_Witness ==
  /\ hist.created = 1
  /\ hist.seenKeys = {"p1"}
  /\ hist.ticks >= 2
  /\ hist.hadUpdate
  /\ hist.fired
  /\ At(hist.log, "newAgent") = {}
  /\ AtKey(hist.log, "getServerUpdate", "p1") # {}
  /\ Len(getScene) = 4

\* C8: when a consumed snapshot names bullet group k with list L, the list tracked
\* for k afterwards has exactly |L| bullets, built from L in order (each with L[i]'s
\* velocity, at L[i]'s position advanced by this step), and none of the bullets
\* tracked for k before.
C8_BulletsReplaced ==
  [][(IsTick /\ hist'.fired /\ hist'.hadUpdate) =>
       LET u == serverUpdateManager.mostRecentUpdate
       IN \A k \in SeqRange(u.bullets.order) :
            LET L == u.bullets.val[k]
                tracked == bullets'.val[k]
            IN /\ hasOwnProperty(bullets', k)
               /\ Len(tracked) = Len(L)
               /\ \A i \in DOMAIN L :
                    /\ tracked[i].velocity = L[i].velocity
                    /\ tracked[i].position.x = L[i].position.x + L[i].velocity.x * hist'.dt
                    /\ tracked[i].position.y = L[i].position.y + L[i].velocity.y * hist'.dt
                    /\ tracked[i].oid >= nextOid
                    /\ \A j \in DOMAIN L : j # i => tracked[j].oid # tracked[i].oid
    ]_vars

\* two bullets tracked for p1 and one for p2, then a snapshot with one bullet for p1
\* and an empty list for p2
C8_Witness ==
  /\ hist.ticks >= 2
  /\ hasOwnProperty(bullets, "p1")
  /\ Len(bullets.val["p1"]) = 1
  /\ bullets.val["p1"][1].oid = 6
  /\ hasOwnProperty(bullets, "p2")
  /\ bullets.val["p2"] = <<>>

\* C11: in every gameLoop invocation getServerUpdate and update are called only on
\* keys the players map holds at that point: for a key first seen in the snapshot
\* the Agent has been constructed and stored earlier in the same step, every other
\* key was stored by an earlier step, so no players[key] is undefined when used.
C11_CreatedBeforeUse ==
  [][(IsTick /\ hist'.fired) =>
       LET log == hist'.log
       IN \A i \in DOMAIN log :
            log[i].op \in {"getServerUpdate", "Agent.update"} =>
              /\ \/ hasOwnProperty(players, log[i].key)
                 \/ \E j \in DOMAIN log : j < i /\ log[j] = Ev("newAgent", log[i].key)
              /\ hasOwnProperty(players', log[i].key)
    ]_vars

\* the step that first sees p2 while p1 is tracked: p2 is constructed, then both get
\* getServerUpdate and update
C11_Witness ==
  /\ hist.fired
  /\ hist.seenKeys = {"p1", "p2"}
  /\ AtKey(hist.log, "newAgent", "p2") # {}
  /\ AtKey(hist.log, "newAgent", "p1") = {}
  /\ AtKey(hist.log, "getServerUpdate", "p2") # {}
  /\ AtKey(hist.log, "Agent.update", "p1") # {}
  /\ AtKey(hist.log, "Agent.update", "p2") # {}

-----------------------------------------------------------------------------
(* A Camera or DebugCamera driven directly: update, shake and the key listeners, *)
(* following a stationary target                                                *)

\* where the followed object stands (world units), the camera starting at origin:
\* FOLLOW_DISTANCE + 1 away on one axis in either direction, further away on both
\* axes, and on the spot
Targets == {<<51, 0>>, <<-51, 0>>, <<0, 51>>, <<0, -51>>, <<100, -100>>, <<-100, 51>>, <<0, 0>>}
\* deltaTime of the update calls, in milliseconds
CameraDeltas == {250, 1000}
CameraKeys == {"ArrowUp", "s", " "}

EntitiesIdle ==
  UNCHANGED <<serverUpdateManager, server, players, bullets, isRequestingUpdates, before,
              millisPassedSinceLastFrame, debugMode, clock, nextOid, agent, bullet,
              vec1, vec2, ctx, ioManager,
              keyboardManager, outbound>>

InitCamera ==
  /\ serverUpdateManager = NewServerUpdateManager
  /\ server = NewServer
  /\ bullets = EmptyMap
  /\ isRequestingUpdates = FALSE
  /\ clock = 0
  /\ before = 0
  /\ millisPassedSinceLastFrame = 0
  /\ nextOid = 1
  /\ lastOp = NoOp
  /\ UnitObjectsIdle
  /\ PeripheralsNew
  /\ \E kind \in {"Camera", "DebugCamera"}, t \in Targets, dt \in CameraDeltas :
       /\ kind = "DebugCamera" => t = <<51, 0>>
       /\ debugMode = (kind = "DebugCamera")
       /\ players = MapPut(EmptyMap, "target",
                           NewAgent(0, AgentStateOf(t[1], t[2], 0, 0, 0, 0, 0)))
       /\ camera = centerOn(NewCamera(kind), "target")
       /\ hist = [NoHist EXCEPT !.fixedDt = dt]

\* camera.update(deltaTime)
CallCameraUpdate ==
  /\ hist.calls < MaxCalls
  /\ camera' = UpdateCamera(camera, players, hist.fixedDt)
  /\ hist' = [hist EXCEPT !.calls = @ + 1,
                          !.sinceShake = IF @ >= 0 THEN @ + 1 ELSE @]
  /\ lastOp' = [NoOp EXCEPT !.op = "Camera.update", !.dt = hist.fixedDt]
  /\ EntitiesIdle

\* camera.shake(0): the trigger
CallShake ==
  /\ hist.calls < MaxCalls
  /\ camera.kind = "Camera"
  /\ camera' = shake(camera, 0)
  /\ hist' = [hist EXCEPT !.calls = @ + 1,
                          !.sinceShake = IF camera.isShaking THEN -1 ELSE 0]
  /\ lastOp' = [NoOp EXCEPT !.op = "shake"]
  /\ EntitiesIdle

CameraKeydown(key) ==
  /\ hist.inputs < MaxInputs
  /\ camera.kind = "DebugCamera"
  /\ camera' = onKeydown(camera, key)
  /\ hist' = [hist EXCEPT !.inputs = @ + 1,
                          !.sinceShake = IF key # "s" THEN @
                                         ELSE IF camera.isShaking THEN -1 ELSE 0]
  /\ lastOp' = [NoOp EXCEPT !.op = IF key = "s" THEN "shake" ELSE "keydown"]
  /\ EntitiesIdle

CameraKeyup(key) ==
  /\ hist.inputs < MaxInputs
  /\ camera.kind = "DebugCamera"
  /\ Includes(camera.keysDown, key)
  /\ camera' = onKeyup(camera, key)
  /\ hist' = [hist EXCEPT !.inputs = @ + 1]
  /\ lastOp' = [NoOp EXCEPT !.op = "keyup"]
  /\ EntitiesIdle

NextCamera ==
  \/ CallCameraUpdate
  \/ CallShake
  \/ \E key \in CameraKeys : CameraKeydown(key)
  \/ \E key \in CameraKeys : CameraKeyup(key)

SpecCamera == InitCamera /\ [][NextCamera]_vars

-----------------------------------------------------------------------------
(* Claims about the camera's follow and shake (checked under SpecCamera) *)

\* the followed position, and whether this update call runs Camera.update's follow
TargetPosition == getPosition(players.val["target"])
Follows == lastOp'.op = "Camera.update" /\ (camera.kind = "Camera" \/ ~camera.debugOn)
CeilDiv(a, b) == (a + b - 1) \div b

\* C12 as the specification states it: on each axis, in either direction, when the
\* destination is more than FOLLOW_DISTANCE from pathPosition before Camera.update,
\* it is exactly FOLLOW_DISTANCE from it afterwards.
C12_ClampsToFollowDistance ==
  [][Follows =>
       /\ Abs(TargetPosition.x - camera.pathPosition.x) > FOLLOW_DISTANCE * Micro =>
            Abs(TargetPosition.x - camera'.pathPosition.x) = FOLLOW_DISTANCE * Micro
       /\ Abs(TargetPosition.y - camera.pathPosition.y) > FOLLOW_DISTANCE * Micro =>
            Abs(TargetPosition.y - camera'.pathPosition.y) = FOLLOW_DISTANCE * Micro
    ]_vars

\* C13: the destination standing still FOLLOW_DISTANCE + 1 from where the camera
\* started on an axis (either direction), every update call that changes pathPosition
\* strictly reduces the distance to the destination on that axis and never puts
\* pathPosition on the other side of the destination.
C13_ApproachesWithoutOvershoot ==
  [][(lastOp'.op = "Camera.update" /\ camera'.pathPosition # camera.pathPosition) =>
       /\ Abs(TargetPosition.x) = (FOLLOW_DISTANCE + 1) * Micro =>
            /\ Abs(TargetPosition.x - camera'.pathPosition.x)
                 < Abs(TargetPosition.x - camera.pathPosition.x)
            /\ Sign(TargetPosition.x - camera'.pathPosition.x)
                 \in {0, Sign(TargetPosition.x - camera.pathPosition.x)}
       /\ Abs(TargetPosition.y) = (FOLLOW_DISTANCE + 1) * Micro =>
            /\ Abs(TargetPosition.y - camera'.pathPosition.y)
                 < Abs(TargetPosition.y - camera.pathPosition.y)
            /\ Sign(TargetPosition.y - camera'.pathPosition.y)
                 \in {0, Sign(TargetPosition.y - camera.pathPosition.y)}
    ]_vars

\* destination 51 behind the camera on x: two updates have brought it from 51 to
\* 45.9 and then 41.31 away
C13_Witness ==
  /\ lastOp.op = "Camera.update"
  /\ camera.kind = "Camera"
  /\ TargetPosition = Vec(-51 * Micro, 0)
  /\ camera.pathPosition = Vec(-9690000, 0)

\* C14 as the specification states it: a shake triggered on an idle camera, followed
\* by update calls with a fixed deltaTime dt, is over (isShaking false and
\* augmentedPosition = pathPosition) once ceil(0.5 / dt) update calls have been made.
C14_ShakeOverInTime ==
  (hist.sinceShake >= 0 /\ hist.sinceShake >= CeilDiv(ShakeMillis, hist.fixedDt)) =>
    /\ ~camera.isShaking
    /\ camera.augmentedPosition = camera.pathPosition

\* C15 as stated: in every state of a Camera or DebugCamera, isShaking false implies
\* augmentedPosition = pathPosition.
C15_AsStated ==
  ~camera.isShaking => camera.augmentedPosition = camera.pathPosition

\* C15 amended: in every state of a Camera that is not a DebugCamera, isShaking false
\* implies augmentedPosition = pathPosition; for a DebugCamera the same holds after
\* every update call made with debug mode off.  (With debug mode on, update moves
\* augmentedPosition by the arrow keys held and leaves pathPosition.)
C15_AugmentedIsPathUnlessShaking ==
  [][/\ (camera'.kind = "Camera" /\ ~camera'.isShaking) =>
          camera'.augmentedPosition = camera'.pathPosition
     /\ (lastOp'.op = "Camera.update" /\ ~camera.debugOn /\ ~camera'.isShaking) =>
          camera'.augmentedPosition = camera'.pathPosition
    ]_vars

\* a Camera that has followed its target through a whole shake and is idle again
C15_Witness ==
  /\ camera.kind = "Camera"
  /\ ~camera.isShaking
  /\ hist.sinceShake >= 2
  /\ camera.pathPosition # origin
  /\ camera.augmentedPosition = camera.pathPosition

\* C18 as the specification states it: a shake trigger that arrives while the camera
\* is shaking leaves isShaking true and shakeTimeElapsed as it was.
C18_RetriggerIsNoOp ==
  [][(lastOp'.op = "shake" /\ camera.isShaking) =>
       /\ camera'.isShaking
       /\ camera'.shakeTimeElapsed = camera.shakeTimeElapsed
    ]_vars

\* a step of Camera.shake runs: the trigger, or an update call on a shaking camera
ShakeStepRuns ==
  \/ lastOp'.op = "shake"
  \/ lastOp'.op = "Camera.update" /\ camera.isShaking

\* C28: a shake step that runs with shakeTimeElapsed above 0.5 s sets isShaking false,
\* shakeTimeElapsed 0 and augmentedPosition to pathPosition; so in every state
\* isShaking false implies shakeTimeElapsed = 0, and a shake triggered on an idle
\* camera starts at t = 0 and keeps running, its timer advanced by deltaTime, for as
\* long as the timer has not passed 0.5 s.
C28_ShakeEndsReset ==
  /\ [][(ShakeStepRuns /\ camera.shakeTimeElapsed > ShakeMillis) =>
          /\ ~camera'.isShaking
          /\ camera'.shakeTimeElapsed = 0
          /\ camera'.augmentedPosition = camera'.pathPosition
       ]_vars
  /\ [](~camera.isShaking => camera.shakeTimeElapsed = 0)
  /\ [][(lastOp'.op = "shake" /\ ~camera.isShaking) =>
          /\ camera'.isShaking
          /\ camera'.shakeTimeElapsed = 0
       ]_vars
  /\ [][(ShakeStepRuns /\ camera.shakeTimeElapsed <= ShakeMillis) =>
          /\ camera'.isShaking
          /\ camera'.shakeTimeElapsed = camera.shakeTimeElapsed + lastOp'.dt
       ]_vars

\* trigger, two update calls of 1 s (the second ran the shake step with the timer at
\* 1 s and ended the shake), and a second trigger, which is at t = 0
C28_Witness ==
  /\ camera.kind = "Camera"
  /\ hist.fixedDt = 1000
  /\ hist.calls = 4
  /\ lastOp.op = "shake"
  /\ hist.sinceShake = 0
  /\ camera.isShaking
  /\ camera.shakeTimeElapsed = 0
  /\ TargetPosition = Vec(51 * Micro, 0)
  /\ camera.pathPosition = Vec(6 * Micro, 0)


-----------------------------------------------------------------------------
(* The camera's view: world bounds, culling, coordinate transform, renderAll *)

\* scale * d exactly, for scale in 1/1000 and d in 1/1000000: the product is
\* whole * Micro + part with 0 <= part < Micro, so `whole` counts 1/1000 and
\* `part` the remainder below it.  The factors are split so that no intermediate
\* value passes 2^31.
MulExact(scale, d) ==
  LET dq == d \div Micro
      dr == d % Micro
      r1 == dr \div Milli
      r2 == dr % Milli
      a == scale * r1
      low == (a % Milli) * Milli + scale * r2
  IN [whole |-> scale * dq + a \div Milli + low \div Micro, part |-> low % Micro]

\* a world coordinate base + num / den (base in 1/1000000, num and den in 1/1000)
Offset(base, num, den) == [base |-> base, num |-> num, den |-> den]
\* coord >= b and coord <= b for such a coordinate b, den > 0: compared as
\* (coord - base) * den against num
AtLeast(coord, b) == MulExact(b.den, coord - b.base).whole >= b.num
AtMost(coord, b) ==
  LET m == MulExact(b.den, coord - b.base)
  IN m.whole < b.num \/ (m.whole = b.num /\ m.part = 0)

\* Camera.computeWorldBounds: augmentedPosition -/+ axesRadii / scale
computeWorldBounds(cam) ==
  [topLeft |-> Vec(Offset(cam.augmentedPosition.x, -cam.axesRadii.x, cam.scale),
                   Offset(cam.augmentedPosition.y, -cam.axesRadii.y, cam.scale)),
   bottomRight |-> Vec(Offset(cam.augmentedPosition.x, cam.axesRadii.x, cam.scale),
                       Offset(cam.augmentedPosition.y, cam.axesRadii.y, cam.scale))]

\* faulty variant: culling whose bottom-right comparisons are strict
coordWithinBounds_Exclusive(cam, coord) ==
  LET topLeft == computeWorldBounds(cam).topLeft
      bottomRight == computeWorldBounds(cam).bottomRight
  IN /\ AtLeast(coord.x, topLeft.x) /\ AtLeast(coord.y, topLeft.y)
     /\ ~AtLeast(coord.x, bottomRight.x) /\ ~AtLeast(coord.y, bottomRight.y)
\* Camera.coordWithinBounds
coordWithinBounds(cam, coord) ==
  LET topLeft == computeWorldBounds(cam).topLeft
      bottomRight == computeWorldBounds(cam).bottomRight
  IN /\ AtLeast(coord.x, topLeft.x) /\ AtLeast(coord.y, topLeft.y)
     /\ AtMost(coord.x, bottomRight.x) /\ AtMost(coord.y, bottomRight.y)

\* one screen coordinate: half the canvas plus scale * d, as `whole` 1/1000 pixels
\* and the `part` below
ScreenAxis(half, scale, d) ==
  LET m == MulExact(scale, d)
  IN [whole |-> half * Milli + m.whole, part |-> m.part]
\* Camera.worldToScreenCoords
worldToScreenCoords(cam, coord) ==
  Vec(ScreenAxis(cam.canvas.x \div 2, cam.scale, coord.x - cam.augmentedPosition.x),
      ScreenAxis(cam.canvas.y \div 2, cam.scale, coord.y - cam.augmentedPosition.y))

\* Camera.renderAll: the calls it makes, in order; the background first, then
\* drawSprite for each object of the scene that passes coordWithinBounds
DrawCall(call, obj, at) == [call |-> call, obj |-> obj, at |-> at]
\* the size GameWorld constructs its Agents with
AgentSize == Vec(100, 150)
\* SceneObject.getSize: a Bullet's is its radius on both axes, an Agent's the size
\* it was constructed with
getSize(obj) ==
  IF "radius" \in DOMAIN obj THEN Vec(obj.radius, obj.radius) ELSE AgentSize
\* object.drawSprite(objectScreenCoords, scaledSize); the size is in 1/1000
SpriteCall(obj, at, size) == [call |-> "drawSprite", obj |-> obj, at |-> at, size |-> size]
\* faulty variant: renderAll that passes getSize() unscaled
renderAll_UnscaledSize(cam, scene) ==
  LET Sprites[i \in 0..Len(scene)] ==
        IF i = 0 THEN <<>>
        ELSE LET objPos == getPosition(scene[i])
                 scaledSize == multiplyVectors(Vec(Milli, Milli), getSize(scene[i]))
             IN IF coordWithinBounds(cam, objPos)
                THEN Append(Sprites[i - 1],
                            SpriteCall(i, worldToScreenCoords(cam, objPos), scaledSize))
                ELSE Sprites[i - 1]
  IN <<DrawCall("background.draw", 0, worldToScreenCoords(cam, cam.augmentedPosition))>>
       \o Sprites[Len(scene)]
\* Camera.renderAll: the calls it makes, in order
renderAll(cam, scene) ==
  LET Sprites[i \in 0..Len(scene)] ==
        IF i = 0 THEN <<>>
        ELSE LET objPos == getPosition(scene[i])
                 scaledSize == multiplyVectors(Vec(cam.scale, cam.scale), getSize(scene[i]))
             IN IF coordWithinBounds(cam, objPos)
                THEN Append(Sprites[i - 1],
                            SpriteCall(i, worldToScreenCoords(cam, objPos), scaledSize))
                ELSE Sprites[i - 1]
  IN <<DrawCall("background.draw", 0, worldToScreenCoords(cam, cam.augmentedPosition))>>
       \o Sprites[Len(scene)]


-----------------------------------------------------------------------------
(* The camera's view driven directly: a DebugCamera built with some scale on    *)
(* some canvas, over a fixed scene, receiving wheel and key events, update      *)
(* calls and renderAll calls                                                    *)

\* scale arguments of the constructor (1/1000): half, the default, and 4
ViewScales == {500, 1000, 4000}
\* canvas sizes (width, height) in pixels: the window's, and a 200 x 200 one
ViewCanvases == {<<800, 600>>, <<200, 200>>}
\* deltaY of the wheel events
ViewWheelDeltas == {-300, 50, 1000}
\* deltaTime of the update calls, in milliseconds
ViewDelta == 250
\* where the scene's objects stand (world units), in scene order
ViewObjects == <<<<50, 50>>, <<150, 0>>, <<100, 100>>, <<600, 0>>, <<-400, -300>>>>
ViewNames == <<"a", "b", "c", "d", "e">>
\* where the bullets of group "a" stand (1/1000000): near the origin, and far off
ViewBullets == <<Vec(20 * Micro, -20 * Micro), Vec(-900 * Micro, 0)>>

ViewScene[i \in 0..Len(ViewObjects)] ==
  IF i = 0 THEN EmptyMap
  ELSE MapPut(ViewScene[i - 1], ViewNames[i],
              NewAgent(i, AgentStateOf(ViewObjects[i][1], ViewObjects[i][2], 0, 0, 0, 0, 0)))

InitView ==
  /\ serverUpdateManager = NewServerUpdateManager
  /\ server = NewServer
  /\ bullets = MapPut(EmptyMap, "a",
                      <<NewBullet(Len(ViewObjects) + 1, ViewBullets[1], origin, NoSrc),
                        NewBullet(Len(ViewObjects) + 2, ViewBullets[2], origin, NoSrc)>>)
  /\ isRequestingUpdates = FALSE
  /\ clock = 0
  /\ before = 0
  /\ millisPassedSinceLastFrame = 0
  /\ nextOid = Len(ViewObjects) + 3
  /\ lastOp = NoOp
  /\ UnitObjectsIdle
  /\ PeripheralsNew
  /\ debugMode = TRUE
  /\ players = ViewScene[Len(ViewObjects)]
  /\ hist = [NoHist EXCEPT !.fixedDt = ViewDelta]
  /\ \E scale \in ViewScales, c \in ViewCanvases :
       camera = NewCameraOn("DebugCamera", scale, Vec(c[1], c[2]))

\* a wheel event on the window
ViewWheel(deltaY) ==
  /\ hist.inputs < MaxInputs
  /\ camera' = onWheel(camera, deltaY)
  /\ hist' = [hist EXCEPT !.inputs = @ + 1]
  /\ lastOp' = [NoOp EXCEPT !.op = "wheel", !.dt = deltaY]
  /\ EntitiesIdle

\* camera.renderAll()
CallRenderAll ==
  /\ hist' = [hist EXCEPT !.drawn = renderAll(camera, getScene)]
  /\ lastOp' = [NoOp EXCEPT !.op = "renderAll"]
  /\ UNCHANGED camera
  /\ EntitiesIdle

NextView ==
  \/ \E deltaY \in ViewWheelDeltas : ViewWheel(deltaY)
  \/ CallRenderAll
  \/ CallCameraUpdate
  \/ \E key \in CameraKeys : CameraKeydown(key)
  \/ \E key \in CameraKeys : CameraKeyup(key)

SpecView == InitView /\ [][NextView]_vars


-----------------------------------------------------------------------------
(* Claims about zoom, culling and the coordinate transform (checked under       *)
(* SpecView)                                                                    *)

HalfCanvas == Vec(camera.canvas.x \div 2, camera.canvas.y \div 2)
IsViewWheel == lastOp'.op = "wheel" /\ hist'.inputs = hist.inputs + 1
\* the scene positions of the objects the last renderAll called drawSprite on
SpriteCalls == {c \in {hist.drawn[k] : k \in DOMAIN hist.drawn} : c.call = "drawSprite"}
Drawn(i) == \E c \in SpriteCalls : c.obj = i
\* |p - c| <= r / scale, for p and c in 1/1000000 and r, scale in 1/1000
Within(p, c, r, scale) ==
  LET m == MulExact(scale, Abs(p - c))
  IN m.whole < r \/ (m.whole = r /\ m.part = 0)
\* a screen coordinate lies in [0, size] pixels
OnCanvas(sc, size) ==
  /\ sc.whole >= 0
  /\ sc.whole < size * Milli \/ (sc.whole = size * Milli /\ sc.part = 0)

\* C16: after one or more wheel events the camera's axesRadii is its current
\* scale times half the canvas size, on both axes.
C16_RadiiFollowScale ==
  hist.inputs > 0 /\ lastOp.op = "wheel" =>
    camera.axesRadii = Vec(camera.scale * HalfCanvas.x, camera.scale * HalfCanvas.y)

\* C17: the scale is within [0.125, 3] in every state, from construction on, and
\* a wheel event with deltaY sets it to the old scale - 0.01 * deltaY restricted to
\* that range.
C17_ScaleInRange ==
  /\ [](camera.scale >= 125 /\ camera.scale <= 3000)
  /\ [][IsViewWheel =>
          camera'.scale = Min(Max(125, camera.scale - 10 * lastOp'.dt), 3000)]_vars

\* C19: renderAll calls drawSprite on exactly the scene objects whose position p
\* has augmentedPosition - axesRadii/scale <= p <= augmentedPosition +
\* axesRadii/scale on both axes, the bounds included; a camera at (0,0) with
\* axesRadii {100,100} and scale 1 draws the objects at (50,50) and (100,100) and
\* not the one at (150,0).
C19_DrawsWhatIsInBounds ==
  lastOp.op = "renderAll" =>
    /\ \A i \in DOMAIN getScene :
         Drawn(i) <=>
           /\ Within(getPosition(getScene[i]).x, camera.augmentedPosition.x,
                     camera.axesRadii.x, camera.scale)
           /\ Within(getPosition(getScene[i]).y, camera.augmentedPosition.y,
                     camera.axesRadii.y, camera.scale)
    /\ ( /\ camera.augmentedPosition = origin
         /\ camera.axesRadii = Vec(100 * Milli, 100 * Milli)
         /\ camera.scale = Milli )
       => Drawn(1) /\ ~Drawn(2) /\ Drawn(3)

\* a renderAll by a camera at (0,0) with axesRadii {100,100} and scale 1, which
\* has drawn the object on the corner of its bounds and culled another
C19_Witness ==
  /\ lastOp.op = "renderAll"
  /\ camera.augmentedPosition = origin
  /\ camera.axesRadii = Vec(100 * Milli, 100 * Milli)
  /\ camera.scale = Milli
  /\ getPosition(getScene[3]) = Vec(100 * Micro, 100 * Micro)
  /\ Drawn(3)
  /\ ~Drawn(2)

\* C20: renderAll draws an object iff worldToScreenCoords of its position lies
\* inside the canvas rectangle [0,width] x [0,height], for a camera built with any
\* scale and after any wheel events.
C20_CullingMatchesTransform ==
  lastOp.op = "renderAll" =>
    \A i \in DOMAIN getScene :
      Drawn(i) <=>
        LET sc == worldToScreenCoords(camera, getPosition(getScene[i]))
        IN OnCanvas(sc.x, camera.canvas.x) /\ OnCanvas(sc.y, camera.canvas.y)

\* C31: renderAll draws the background first, then calls drawSprite on the visible
\* scene objects in scene order, each once, at worldToScreenCoords of its position
\* and with size scale * getSize(); an object outside the bounds gets no drawSprite
\* call; and renderAll leaves the camera as it was.
C31_BackgroundThenSpritesInOrder ==
  /\ [](lastOp.op = "renderAll" =>
          /\ hist.drawn[1].call = "background.draw"
          /\ \A k \in 2..Len(hist.drawn) :
                LET c == hist.drawn[k]
                    obj == getScene[c.obj]
                IN /\ c.call = "drawSprite"
                   /\ c.obj \in DOMAIN getScene
                   /\ k > 2 => hist.drawn[k - 1].obj < c.obj
                   /\ c.at = worldToScreenCoords(camera, getPosition(obj))
                   /\ c.size = Vec(camera.scale * getSize(obj).x,
                                   camera.scale * getSize(obj).y)
          /\ \A i \in DOMAIN getScene :
                Drawn(i) <=>
                  /\ Within(getPosition(getScene[i]).x, camera.augmentedPosition.x,
                            camera.axesRadii.x, camera.scale)
                  /\ Within(getPosition(getScene[i]).y, camera.augmentedPosition.y,
                            camera.axesRadii.y, camera.scale))
  /\ [][lastOp'.op = "renderAll" => camera' = camera]_vars

\* a renderAll at scale 0.5 that has drawn two Agents and then a Bullet, at half
\* their sizes, and culled the Agent between them and the far Bullet
C31_Witness ==
  /\ lastOp.op = "renderAll"
  /\ camera.scale = 500
  /\ Len(hist.drawn) = 4
  /\ Drawn(1) /\ ~Drawn(2) /\ Drawn(3) /\ ~Drawn(7)
  /\ Last(hist.drawn).obj = 6
  /\ Last(hist.drawn).size = Vec(5000, 5000)
  /\ hist.drawn[2].size = Vec(50000, 75000)


-----------------------------------------------------------------------------
(* Panning and shaking: a Camera following a target, or a DebugCamera, receiving *)
(* update calls, shake triggers and key events.  hist.plain is the same camera   *)
(* object as it would be had the same calls and events reached it without any    *)
(* shake being triggered.                                                        *)

PanKeys == {"ArrowUp", "ArrowDown", "ArrowRight", "ArrowLeft", "s", " "}
\* where the followed object stands (world units)
PanTargets == {<<100, -100>>, <<-51, 0>>}

\* the keydown listener's effect when the key triggers no shake
onKeydownPlain(cam, key) ==
  IF key = "s" THEN [cam EXCEPT !.keysDown = Append(cam.keysDown, key)]
  ELSE onKeydown(cam, key)

InitPan ==
  /\ serverUpdateManager = NewServerUpdateManager
  /\ server = NewServer
  /\ bullets = EmptyMap
  /\ isRequestingUpdates = FALSE
  /\ clock = 0
  /\ before = 0
  /\ millisPassedSinceLastFrame = 0
  /\ nextOid = 1
  /\ lastOp = NoOp
  /\ UnitObjectsIdle
  /\ PeripheralsNew
  /\ \E kind \in {"Camera", "DebugCamera"}, t \in PanTargets, dt \in CameraDeltas :
       /\ kind = "DebugCamera" => t = <<-51, 0>>
       /\ debugMode = (kind = "DebugCamera")
       /\ players = MapPut(EmptyMap, "target",
                           NewAgent(0, AgentStateOf(t[1], t[2], 0, 0, 0, 0, 0)))
       /\ camera = centerOn(NewCamera(kind), "target")
       /\ hist = [NoHist EXCEPT !.fixedDt = dt,
                                !.plain = centerOn(NewCamera(kind), "target")]

\* camera.update(deltaTime)
PanUpdate ==
  /\ hist.calls < MaxCalls
  /\ camera' = UpdateCamera(camera, players, hist.fixedDt)
  /\ hist' = [hist EXCEPT !.calls = @ + 1,
                          !.plain = UpdateCamera(@, players, hist.fixedDt)]
  /\ lastOp' = [NoOp EXCEPT !.op = "Camera.update", !.dt = hist.fixedDt]
  /\ EntitiesIdle

\* camera.shake(0): the trigger
PanShake ==
  /\ hist.calls < MaxCalls
  /\ camera.kind = "Camera"
  /\ camera' = shake(camera, 0)
  /\ hist' = [hist EXCEPT !.calls = @ + 1]
  /\ lastOp' = [NoOp EXCEPT !.op = "shake"]
  /\ EntitiesIdle

PanKeydown(key) ==
  /\ hist.inputs < MaxInputs
  /\ camera.kind = "DebugCamera"
  /\ camera' = onKeydown(camera, key)
  /\ hist' = [hist EXCEPT !.inputs = @ + 1, !.plain = onKeydownPlain(@, key)]
  /\ lastOp' = [NoOp EXCEPT !.op = IF key = "s" THEN "shake" ELSE "keydown"]
  /\ EntitiesIdle

PanKeyup(key) ==
  /\ hist.inputs < MaxInputs
  /\ camera.kind = "DebugCamera"
  /\ Includes(camera.keysDown, key)
  /\ camera' = onKeyup(camera, key)
  /\ hist' = [hist EXCEPT !.inputs = @ + 1, !.plain = onKeyup(@, key)]
  /\ lastOp' = [NoOp EXCEPT !.op = "keyup"]
  /\ EntitiesIdle

NextPan ==
  \/ PanUpdate
  \/ PanShake
  \/ \E key \in PanKeys : PanKeydown(key)
  \/ \E key \in PanKeys : PanKeyup(key)

SpecPan == InitPan /\ [][NextPan]_vars

-----------------------------------------------------------------------------
(* Claims about panning and shaking (checked under SpecPan) *)

\* the pan of one update for the keys held: 50 on each axis, ArrowUp before
\* ArrowDown, ArrowRight before ArrowLeft
PanStep(keys) ==
  Vec(IF Includes(keys, "ArrowRight") THEN 50 * Micro
      ELSE IF Includes(keys, "ArrowLeft") THEN -50 * Micro ELSE 0,
      IF Includes(keys, "ArrowUp") THEN -50 * Micro
      ELSE IF Includes(keys, "ArrowDown") THEN 50 * Micro ELSE 0)

\* C21 as the specification states it: with debugOn, DebugCamera.update leaves
\* pathPosition and moves augmentedPosition by exactly the pan of the keys held,
\* whatever deltaTime is; with debugOn false it does what Camera.update does.
C21_DebugUpdatePans ==
  [][(lastOp'.op = "Camera.update" /\ camera.kind = "DebugCamera") =>
       IF camera.debugOn
       THEN /\ camera'.pathPosition = camera.pathPosition
            /\ camera'.augmentedPosition =
                 addVectors(camera.augmentedPosition, PanStep(camera.keysDown))
       ELSE camera' = CameraUpdate(camera, players, hist.fixedDt)
    ]_vars

\* C30 as the specification states it: augmentedPosition.x is always what it would
\* be without any shake, and when no shake is running the whole of
\* augmentedPosition is; for a Camera and for a DebugCamera.
C30_ShakeIsTransientOnY ==
  /\ camera.augmentedPosition.x = hist.plain.augmentedPosition.x
  /\ ~camera.isShaking => camera.augmentedPosition = hist.plain.augmentedPosition


-----------------------------------------------------------------------------
(* VectorMath called directly on two Vec2 objects *)

\* the components of the vectors handed in
VecComponents == {-3, 0, 2, 3, 4}

InitVec ==
  /\ serverUpdateManager = NewServerUpdateManager
  /\ server = NewServer
  /\ players = EmptyMap
  /\ bullets = EmptyMap
  /\ isRequestingUpdates = FALSE
  /\ clock = 0
  /\ before = 0
  /\ millisPassedSinceLastFrame = 0
  /\ debugMode = FALSE
  /\ camera = NewCamera("Camera")
  /\ nextOid = 1
  /\ hist = NoHist
  /\ lastOp = NoOp
  /\ UnitObjectsIdle
  /\ ctx = NewContext
  /\ ioManager = NewIOManager
  /\ keyboardManager = NewKeyboardManager
  /\ outbound = <<>>
  /\ \E x1 \in VecComponents, y1 \in VecComponents,
        x2 \in VecComponents, y2 \in VecComponents :
       /\ vec1 = Vec(x1, y1)
       /\ vec2 = Vec(x2, y2)

\* f(vec1, vec2): the functions build their result from the arguments' fields and
\* assign to neither argument; lastOp holds the arguments as handed in and the
\* result
CallVec(f, result) ==
  /\ lastOp' = [NoOp EXCEPT !.op = f, !.arg = <<vec1, vec2>>, !.ret = result]
  /\ UNCHANGED <<serverUpdateManager, server, players, bullets, isRequestingUpdates,
                 before, millisPassedSinceLastFrame, camera, debugMode, clock, nextOid,
                 agent, bullet, vec1, vec2, ctx, ioManager,
                 keyboardManager, outbound, hist>>

CallAddVectors == CallVec("addVectors", addVectors(vec1, vec2))
CallSubractVectors == CallVec("subractVectors", subractVectors(vec1, vec2))
CallMultiplyVectors == CallVec("multiplyVectors", multiplyVectors(vec1, vec2))
CallModVectors == CallVec("modVectors", modVectors(vec1, vec2))

NextVec ==
  \/ CallAddVectors
  \/ CallSubractVectors
  \/ CallMultiplyVectors
  \/ CallModVectors

SpecVec == InitVec /\ [][NextVec]_vars


-----------------------------------------------------------------------------
(* Claims about VectorMath (checked under SpecVec) *)

\* C22: addVectors commutes and has {0,0} as neutral element, a vector minus itself
\* and a vector times {0,0} are {0,0}, and a call of addVectors, subractVectors or
\* multiplyVectors leaves both argument objects as they were handed in.
C22_VectorLaws ==
  /\ lastOp.op = "addVectors" =>
       /\ lastOp.ret = addVectors(vec2, vec1)
       /\ vec2 = origin => lastOp.ret = vec1
  /\ (lastOp.op = "subractVectors" /\ vec2 = vec1) => lastOp.ret = origin
  /\ (lastOp.op = "multiplyVectors" /\ vec2 = origin) => lastOp.ret = origin
  /\ lastOp.op \in {"addVectors", "subractVectors", "multiplyVectors"} =>
       /\ vec1 = lastOp.arg[1]
       /\ vec2 = lastOp.arg[2]

\* addVectors has been called on two different vectors, both off the axes
C22_Witness ==
  /\ lastOp.op = "addVectors"
  /\ vec1 = Vec(2, -3)
  /\ vec2 = Vec(4, 3)
  /\ lastOp.ret = Vec(6, 0)

\* C23: modVectors of a vector and itself is {0,0}, also when a component is zero
\* or negative, and modVectors is the element-wise remainder: {4,4} mod {3,3} is
\* {1,1}.
C23_ModOfItselfIsZero ==
  lastOp.op = "modVectors" =>
    /\ vec2 = vec1 => lastOp.ret = origin
    /\ (vec1 = Vec(4, 4) /\ vec2 = Vec(3, 3)) => lastOp.ret = Vec(1, 1)


-----------------------------------------------------------------------------
(* Backgrounds drawing on the canvas context.  Lengths handed to                *)
(* GridBackground.draw and the lines it draws are in 1/1000; a stroked line is  *)
(* recorded with the context's strokeStyle and lineWidth at the time of         *)
(* ctx.stroke().                                                                *)

\* drawLine(ctx, from, to)
drawLine(c, from, to) ==
  DrawCall("drawLine", 0, [from |-> from, to |-> to,
                           strokeStyle |-> c.strokeStyle, lineWidth |-> c.lineWidth])

\* private gridSquareDimensions = { x: 100, y: 100 }
gridSquareDimensions == Vec(100, 100)

\* the x (or y) of the lines of one direction: from `first` in steps of `step`
\* while not beyond `limit`
LinePositions(first, step, limit) ==
  IF first > limit THEN <<>>
  ELSE [k \in 1..((limit - first) \div step + 1) |-> first + (k - 1) * step]

\* faulty variant: grid drawing that adds the offset to origin
GridBackgroundDraw_AddsOffset(c, topLeft, scale) ==
  LET dimensions == multiplyVectors(gridSquareDimensions, Vec(scale, scale))
      gridOriginOffset == modVectors(topLeft, dimensions)
      gridOrigin == addVectors(origin, gridOriginOffset)
      xs == LinePositions(gridOrigin.x, dimensions.x, CanvasWidth * Milli)
      ys == LinePositions(gridOrigin.y, dimensions.y, CanvasHeight * Milli)
  IN [ctx |-> c,
      lines |-> [k \in DOMAIN xs |->
                   drawLine(c, Vec(xs[k], 0), Vec(xs[k], CanvasHeight * Milli))]
                \o [k \in DOMAIN ys |->
                      drawLine(c, Vec(0, ys[k]), Vec(CanvasWidth * Milli, ys[k]))]]
\* GridBackground.draw: the lines it strokes, in order, and the context afterwards
GridBackgroundDraw(c, topLeft, scale) ==
  LET dimensions == multiplyVectors(gridSquareDimensions, Vec(scale, scale))
      gridOriginOffset == modVectors(topLeft, dimensions)
      gridOrigin == subractVectors(origin, gridOriginOffset)
      xs == LinePositions(gridOrigin.x, dimensions.x, CanvasWidth * Milli)
      ys == LinePositions(gridOrigin.y, dimensions.y, CanvasHeight * Milli)
  IN [ctx |-> c,
      lines |-> [k \in DOMAIN xs |->
                   drawLine(c, Vec(xs[k], 0), Vec(xs[k], CanvasHeight * Milli))]
                \o [k \in DOMAIN ys |->
                      drawLine(c, Vec(0, ys[k]), Vec(CanvasWidth * Milli, ys[k]))]]

\* constants.TOP_LEFT_WORLD_BOUND, constants.BOTTOM_RIGHT_WORLD_BOUND
TopLeftWorldBound == Vec(-30 * Micro, 0)
BottomRightWorldBound == Vec(1000 * Micro, 1000 * Micro)

\* WorldBorderBackground.draw, given the camera whose worldToScreenCoords it is
\* handed
WorldBorderBackgroundDraw(c, cam) ==
  LET topLeftScreen == worldToScreenCoords(cam, TopLeftWorldBound)
      bottomRightScreen == worldToScreenCoords(cam, BottomRightWorldBound)
      bottomLeftScreen ==
        worldToScreenCoords(cam, Vec(TopLeftWorldBound.x, BottomRightWorldBound.y))
      topRightScreen ==
        worldToScreenCoords(cam, Vec(BottomRightWorldBound.x, TopLeftWorldBound.y))
      origLineWidth == c.lineWidth
      styled == [c EXCEPT !.strokeStyle = "red", !.lineWidth = 10]
  IN [ctx |-> [styled EXCEPT !.strokeStyle = "black", !.lineWidth = origLineWidth],
      lines |-> <<drawLine(styled, topLeftScreen, bottomLeftScreen),
                  drawLine(styled, bottomLeftScreen, bottomRightScreen),
                  drawLine(styled, bottomRightScreen, topRightScreen),
                  drawLine(styled, topRightScreen, topLeftScreen)>>]

\* WorldBorderWithGrid.draw: the border, then the grid
WorldBorderWithGridDraw(c, cam, topLeft, scale) ==
  LET border == WorldBorderBackgroundDraw(c, cam)
      grid == GridBackgroundDraw(border.ctx, topLeft, scale)
  IN [ctx |-> grid.ctx, lines |-> border.lines \o grid.lines]

\* colours and widths other drawing code leaves in the context
StrokeStyles == {"black", "white", "red"}
LineWidths == {1, 3}
\* viewport top-left corners (1/1000) and scales (1/1000) handed to draw
GridCorners == {-130000, -25000, 0, 25000, 130000}
GridScales == {500, 1000}

InitBackground ==
  /\ InitWorld(FALSE)
  /\ UnitObjectsIdle

BackgroundIdle ==
  UNCHANGED <<serverUpdateManager, server, players, bullets, isRequestingUpdates, before,
              millisPassedSinceLastFrame, camera, debugMode, clock, nextOid, agent,
              bullet, vec1, vec2, ioManager,
              keyboardManager, outbound>>

\* any code that styles the context before a background is drawn
SetStyle(style, width) ==
  /\ ctx' = [ctx EXCEPT !.strokeStyle = style, !.lineWidth = width]
  /\ lastOp' = [NoOp EXCEPT !.op = "style"]
  /\ hist' = [hist EXCEPT !.drawn = <<>>]
  /\ BackgroundIdle

\* a draw call; lastOp keeps the context as it was before the call
CallDraw(name, topLeft, scale, result) ==
  /\ ctx' = result.ctx
  /\ hist' = [hist EXCEPT !.drawn = result.lines]
  /\ lastOp' = [NoOp EXCEPT !.op = name, !.arg = <<topLeft, scale, ctx>>]
  /\ BackgroundIdle

CallGridBackgroundDraw(topLeft, scale) ==
  CallDraw("GridBackground.draw", topLeft, scale, GridBackgroundDraw(ctx, topLeft, scale))
CallWorldBorderBackgroundDraw(topLeft, scale) ==
  CallDraw("WorldBorderBackground.draw", topLeft, scale,
           WorldBorderBackgroundDraw(ctx, camera))
CallWorldBorderWithGridDraw(topLeft, scale) ==
  CallDraw("WorldBorderWithGrid.draw", topLeft, scale,
           WorldBorderWithGridDraw(ctx, camera, topLeft, scale))

NextBackground ==
  \/ \E style \in StrokeStyles, width \in LineWidths : SetStyle(style, width)
  \/ \E x \in GridCorners, y \in GridCorners, scale \in GridScales :
       \/ CallGridBackgroundDraw(Vec(x, y), scale)
       \/ CallWorldBorderBackgroundDraw(Vec(x, y), scale)
       \/ CallWorldBorderWithGridDraw(Vec(x, y), scale)

SpecBackground == InitBackground /\ [][NextBackground]_vars

-----------------------------------------------------------------------------
(* Claims about the backgrounds (checked under SpecBackground) *)

\* the lines of the last draw that run top to bottom / left to right at canvas size
GridColumns ==
  SelectSeq(hist.drawn, LAMBDA l : l.at.from.x = l.at.to.x /\ l.at.from.y = 0
                                    /\ l.at.to.y = CanvasHeight * Milli)
GridRows ==
  SelectSeq(hist.drawn, LAMBDA l : l.at.from.y = l.at.to.y /\ l.at.from.x = 0
                                    /\ l.at.to.x = CanvasWidth * Milli)
Evenly(positions, step, limit) ==
  /\ \A k \in 1..(Len(positions) - 1) : positions[k + 1] = positions[k] + step
  /\ positions[Len(positions)] <= limit
  /\ positions[Len(positions)] + step > limit

C25_StyleRestored ==
  lastOp.op \in {"WorldBorderBackground.draw", "WorldBorderWithGrid.draw"} =>
    /\ ctx.strokeStyle = lastOp.arg[3].strokeStyle
    /\ ctx.lineWidth = lastOp.arg[3].lineWidth


-----------------------------------------------------------------------------
(* The IOManager and the keyboard layouts registered with it.  A layout is      *)
(* "serverOutput" (GameWorld.serverOutputKeyboardLayout, the player's) or       *)
(* "doNothing" (doNothingKeyboardLayout).  hist.held is the set of keys held,   *)
(* kept from the events themselves.                                             *)

\* e.key.toLowerCase(), on the keys of the model
toLowerCase(key) ==
  CASE key = "W" -> "w"
    [] key = "C" -> "c"
    [] OTHER -> key

\* IOManager.cycle
cycle(io) ==
  IF io.currLayoutIdx >= Len(io.layouts) - 1
  THEN [io EXCEPT !.currLayoutIdx = 0]
  ELSE [io EXCEPT !.currLayoutIdx = @ + 1]

\* IOManager.addIOPair
addIOPair(io, cam, keyboardLayout) ==
  [io EXCEPT !.layouts = Append(@, keyboardLayout), !.cameras = Append(@, cam)]

\* whether this.layouts[this.currLayoutIdx] is an element of the array; when it is
\* not, the expression is undefined and reading a property of it throws a TypeError
HasCurrentLayout(io) == io.currLayoutIdx < Len(io.layouts)
\* the keyboard layout the IOManager forwards events to (currLayoutIdx counts from 0)
CurrentLayout(io) == io.layouts[io.currLayoutIdx + 1]
\* the camera of the current layout
CurrentCamera(io) == io.cameras[io.currLayoutIdx + 1]

\* JSON.stringify({ actions: ioManager.getKeysDown() })
ActionsMessage(io) == [actions |-> io.keysDown]

\* onKeydown / onKeyup of a layout: the sendMessage calls made so far, extended
LayoutOnKey(layout, io, sent) ==
  IF layout = "serverOutput" THEN Append(sent, ActionsMessage(io)) ELSE sent
\* `this.layouts[this.currLayoutIdx].keyboardLayout.onKeydown(e)` and its like: what
\* the listener leaves behind, and whether it ended with the TypeError
Forwarded(io, sent) ==
  IF HasCurrentLayout(io)
  THEN [io |-> io, sent |-> LayoutOnKey(CurrentLayout(io), io, sent), threw |-> FALSE]
  ELSE [io |-> io, sent |-> sent, threw |-> TRUE]

\* faulty variant: keydown listener that records the key without looking for it
IOKeydown_PushesAlways(io, sent, key) ==
  LET cycled == IF key = "c" THEN cycle(io) ELSE io
      pushed == [cycled EXCEPT !.keysDown = Append(cycled.keysDown, toLowerCase(key))]
  IN Forwarded(pushed, sent)
\* IOManager's keydown listener
IOKeydown(io, sent, key) ==
  LET cycled == IF key = "c" THEN cycle(io) ELSE io
      pushed == IF ~Includes(cycled.keysDown, toLowerCase(key))
                THEN [cycled EXCEPT !.keysDown = Append(cycled.keysDown, toLowerCase(key))]
                ELSE cycled
  IN Forwarded(pushed, sent)

\* IOManager's keyup listener
IOKeyup(io, sent, key) ==
  LET released == [io EXCEPT !.keysDown =
                               SelectSeq(io.keysDown, LAMBDA k : k # toLowerCase(key))]
  IN Forwarded(released, sent)

\* IOManager's wheel listener: onScroll of the layouts of the model sends nothing
IOWheel(io, sent) == [io |-> io, sent |-> sent, threw |-> ~HasCurrentLayout(io)]

\* IOManager.update
IOUpdate(io, pl, deltaTime) ==
  [io EXCEPT !.cameras[io.currLayoutIdx + 1] = UpdateCamera(@, pl, deltaTime)]

\* IOManager.renderOutput: the draw calls made
renderOutput(io, scene) == renderAll(CurrentCamera(io), scene)

\* e.key of the key events: a letter and the cycling key, without and with Shift
IOKeys == {"w", "W", "c", "C"}
\* the layouts registered, in the order of the addIOPair calls
LayoutLists ==
  {<<"doNothing", "serverOutput">>, <<"serverOutput", "doNothing">>, <<"serverOutput">>}

InitIO ==
  /\ serverUpdateManager = NewServerUpdateManager
  /\ server = NewServer
  /\ players = EmptyMap
  /\ bullets = EmptyMap
  /\ isRequestingUpdates = FALSE
  /\ clock = 0
  /\ before = 0
  /\ millisPassedSinceLastFrame = 0
  /\ debugMode = FALSE
  /\ camera = NewCamera("Camera")
  /\ nextOid = 1
  /\ hist = NoHist
  /\ lastOp = NoOp
  /\ UnitObjectsIdle
  /\ vec1 = origin
  /\ vec2 = origin
  /\ ctx = NewContext
  /\ outbound = <<>>
  /\ keyboardManager = NewKeyboardManager
  /\ \E ls \in LayoutLists :
       ioManager = [NewIOManager EXCEPT !.layouts = ls,
                                        !.cameras = [i \in DOMAIN ls |-> NewCamera("Camera")]]

IOIdle ==
  UNCHANGED <<serverUpdateManager, server, players, bullets, isRequestingUpdates, before,
              millisPassedSinceLastFrame, camera, debugMode, clock, nextOid, agent,
              bullet, vec1, vec2, ctx, keyboardManager>>

\* a keydown event on the window (also the repeats of a key kept down)
KeydownEvent(key) ==
  /\ hist.calls < MaxCalls
  /\ LET r == IOKeydown(ioManager, outbound, key)
     IN /\ ioManager' = r.io
        /\ outbound' = r.sent
  /\ hist' = [hist EXCEPT !.calls = @ + 1, !.held = @ \cup {toLowerCase(key)}]
  /\ lastOp' = [NoOp EXCEPT !.op = "keydown", !.arg = key]
  /\ IOIdle

\* a keyup event on the window, of a key that is held
KeyupEvent(key) ==
  /\ hist.calls < MaxCalls
  /\ toLowerCase(key) \in hist.held
  /\ LET r == IOKeyup(ioManager, outbound, key)
     IN /\ ioManager' = r.io
        /\ outbound' = r.sent
  /\ hist' = [hist EXCEPT !.calls = @ + 1, !.held = @ \ {toLowerCase(key)}]
  /\ lastOp' = [NoOp EXCEPT !.op = "keyup", !.arg = key]
  /\ IOIdle

NextIO ==
  \/ \E key \in IOKeys : KeydownEvent(key)
  \/ \E key \in IOKeys : KeyupEvent(key)

SpecIO == InitIO /\ [][NextIO]_vars

-----------------------------------------------------------------------------
(* Claims about the keyboard messages (checked under SpecIO) *)

IsKeyEvent == hist'.calls = hist.calls + 1 /\ lastOp'.op \in {"keydown", "keyup"}
\* exactly one sendMessage was made in this step, with the keys now held, each once
SentHeldKeys ==
  /\ Len(outbound') = Len(outbound) + 1
  /\ SubSeq(outbound', 1, Len(outbound)) = outbound
  /\ LET keys == Last(outbound').actions
     IN /\ SeqRange(keys) = hist'.held
        /\ \A i, j \in DOMAIN keys : keys[i] = keys[j] => i = j

\* C26 as the specification states it: every key event that arrives while the
\* player's layout is the current one makes exactly one sendMessage call, whose
\* payload lists the keys held after the event, each once.
C26_AsStated ==
  [][(IsKeyEvent /\ CurrentLayout(ioManager) = "serverOutput") => SentHeldKeys]_vars

\* C26 amended: a key event is forwarded to the layout that is current after the
\* cycling a keydown of 'c' does first.  Every key event forwarded to the player's
\* layout makes exactly one sendMessage call, whose payload lists the keys held
\* after the event, each once; an event forwarded to another layout makes none.
C26_ForwardedEventsSendHeldKeys ==
  [][IsKeyEvent =>
       IF CurrentLayout(ioManager') = "serverOutput"
       THEN SentHeldKeys
       ELSE outbound' = outbound
    ]_vars

\* the player's layout has received, among others, a repeated keydown of a held
\* key and the keydown of 'c' that made it current, and reported both keys held
C26_Witness ==
  /\ ioManager.layouts = <<"doNothing", "serverOutput">>
  /\ hist.calls = 3
  /\ hist.held = {"w", "c"}
  /\ Len(outbound) = 1
  /\ Last(outbound).actions = <<"w", "c">>


-----------------------------------------------------------------------------
(* A Camera whose update is called once per frame for as long as the page runs,  *)
(* following a destination that stands still; shakes are triggered at any time. *)

\* where the destination stands, the camera starting at origin: beyond
\* FOLLOW_DISTANCE in either direction, far away, exactly 1 away on both axes, just
\* over 1 away on one axis, and over 1 away on one axis with the other within 1
FollowStarts ==
  {Vec(51 * Micro, 0), Vec(-51 * Micro, 0), Vec(100 * Micro, -100 * Micro),
   Vec(-1000 * Micro, 3 * Micro), Vec(Micro, -Micro), Vec(Micro + 1, 0),
   Vec(2 * Micro, -500000), Vec(0, 0)}
\* deltaTime of a frame, in milliseconds: none, one frame at 60 Hz, a slow frame
FollowDeltas == {0, 16, 250}

InitFollow ==
  /\ serverUpdateManager = NewServerUpdateManager
  /\ server = NewServer
  /\ bullets = EmptyMap
  /\ isRequestingUpdates = FALSE
  /\ clock = 0
  /\ before = 0
  /\ millisPassedSinceLastFrame = 0
  /\ nextOid = 1
  /\ lastOp = NoOp
  /\ hist = NoHist
  /\ debugMode = FALSE
  /\ UnitObjectsIdle
  /\ PeripheralsNew
  /\ \E t \in FollowStarts :
       players = MapPut(EmptyMap, "target",
                        [NewAgent(0, AgentStateOf(0, 0, 0, 0, 0, 0, 0)) EXCEPT !.position = t])
  /\ camera = centerOn(NewCamera("Camera"), "target")

\* the frame's camera.update(deltaTime)
FollowUpdate ==
  /\ \E dt \in FollowDeltas :
       /\ camera' = UpdateCamera(camera, players, dt)
       /\ lastOp' = [NoOp EXCEPT !.op = "Camera.update", !.dt = dt]
  /\ UNCHANGED hist
  /\ EntitiesIdle

\* camera.shake(0): the trigger
FollowShake ==
  /\ camera' = shake(camera, 0)
  /\ lastOp' = [NoOp EXCEPT !.op = "shake"]
  /\ UNCHANGED hist
  /\ EntitiesIdle

NextFollow ==
  \/ FollowUpdate
  \/ FollowShake

\* the frame callback re-schedules itself, so update calls never stop coming
SpecFollow == InitFollow /\ [][NextFollow]_vars /\ WF_vars(FollowUpdate)

-----------------------------------------------------------------------------
(* Claims about arriving at the destination (checked under SpecFollow) *)

\* pathPosition is within 1 of the destination on both axes
Arrived ==
  /\ Abs(TargetPosition.x - camera.pathPosition.x) <= Micro
  /\ Abs(TargetPosition.y - camera.pathPosition.y) <= Micro
\* the update moves pathPosition toward the destination on the axis (differences
\* below the resolution of the follow step, 1/100000, apart)
MovesCloser(path, path2, dest) ==
  Abs(dest - path) >= LerpDivisor => Abs(dest - path2) < Abs(dest - path)

\* C27: an update call made with pathPosition within 1 of the destination on both
\* axes leaves pathPosition unchanged; an update call made with either axis further
\* than 1 away moves pathPosition on both axes; and, the destination standing still,
\* from every starting position pathPosition comes within 1 of it on both axes after
\* finitely many update calls and stays there forever.
C27_ArrivesAndStays ==
  /\ [][lastOp'.op = "Camera.update" =>
          IF Arrived
          THEN camera'.pathPosition = camera.pathPosition
          ELSE /\ MovesCloser(camera.pathPosition.x, camera'.pathPosition.x, TargetPosition.x)
               /\ MovesCloser(camera.pathPosition.y, camera'.pathPosition.y, TargetPosition.y)
       ]_vars
  /\ <>[]Arrived

\* the camera has come from 1000 and 3 away to within 1 on both axes, the second
\* axis having been moved although it was within 1 before the first was
C27_Witness ==
  /\ TargetPosition = Vec(-1000 * Micro, 3 * Micro)
  /\ lastOp.op = "Camera.update"
  /\ Arrived
  /\ camera.pathPosition # origin
  /\ Abs(TargetPosition.y - camera.pathPosition.y) < Micro \div 10


-----------------------------------------------------------------------------
(* Claims about the shake offset (checked under SpecFollow) *)

\* a number that is neither NaN nor infinite
IsFinite(n) == Abs(n) < NaN

\* C29: a shake step that runs with shakeTimeElapsed = 0, the trigger of a shake on an
\* idle camera and every update(0) that follows it among them, leaves
\* augmentedPosition equal to pathPosition; and in every state, whatever the
\* deltaTime values of the update calls (0 included), both components of
\* augmentedPosition are finite numbers, y within 50 of pathPosition.y.
C29_OffsetDefinedAtZero ==
  /\ [][(lastOp'.op = "shake" /\ ~camera.isShaking) =>
          camera'.augmentedPosition = camera'.pathPosition]_vars
  /\ [][(ShakeStepRuns /\ camera.shakeTimeElapsed = 0) =>
          camera'.augmentedPosition = camera'.pathPosition]_vars
  /\ [](/\ IsFinite(camera.augmentedPosition.x)
        /\ IsFinite(camera.augmentedPosition.y)
        /\ Abs(camera.augmentedPosition.y - camera.pathPosition.y) <= 50 * Micro)

\* a shake still at t = 0 after an update(0) that moved the camera
C29_Witness ==
  /\ lastOp.op = "Camera.update"
  /\ lastOp.dt = 0
  /\ camera.isShaking
  /\ camera.shakeTimeElapsed = 0
  /\ camera.pathPosition # origin
  /\ camera.augmentedPosition = camera.pathPosition

-----------------------------------------------------------------------------
(* Claims about simulated time and the tracked entities (checked under Spec) *)

\* the time accumulated by the invocation being made, and whether its step fires
Accumulated == millisPassedSinceLastFrame + (clock' - before)
IsFiredTick == IsTick /\ hist'.fired
\* the snapshot a fired step consumes
Pending == serverUpdateManager.mostRecentUpdate
Consumes == IsFiredTick /\ hasUpdate(serverUpdateManager)

\* C33: the deltaTime values passed to camera.update by the fired steps add up to
\* the time from the construction of the GameWorld to the last fired invocation
\* (with the accumulator, to the last invocation); a fired step advances every
\* tracked player, every tracked bullet and the camera by the whole accumulated
\* time, with or without a snapshot to consume.
C33_NoTimeLost ==
  /\ [](hist.advanced + millisPassedSinceLastFrame = clock)
  /\ [](hist.fired => hist.advanced = clock)
  /\ [][IsFiredTick =>
          /\ hist'.dt = Accumulated
          /\ \A k \in DOMAIN players'.val :
               LET before_ == IF hasOwnProperty(players, k) THEN players.val[k]
                              ELSE NewAgent(players'.val[k].oid, Pending.players.val[k])
                   ingested == IF Consumes /\ hasOwnProperty(Pending.players, k)
                               THEN AgentGetServerUpdate(before_, Pending.players.val[k])
                               ELSE before_
               IN players'.val[k] = AgentUpdate(ingested, Accumulated)
          /\ \A k \in DOMAIN bullets'.val :
               IF Consumes /\ hasOwnProperty(Pending.bullets, k)
               THEN \A i \in DOMAIN bullets'.val[k] :
                      bullets'.val[k][i].position =
                        addVectors(Pending.bullets.val[k][i].position,
                                   multiplyVectors(Pending.bullets.val[k][i].velocity,
                                                   Vec(Accumulated, Accumulated)))
               ELSE bullets'.val[k] =
                      [i \in DOMAIN bullets.val[k] |->
                         BulletUpdate(bullets.val[k][i], Accumulated)]
          /\ camera' = UpdateCamera(
                         [camera EXCEPT !.destinationPosition = camera'.destinationPosition,
                                        !.debugLines = camera'.debugLines],
                         players', Accumulated)
       ]_vars

\* a step fired for 40 ms, an invocation after 16 ms did not fire, and the next one,
\* 40 ms later, has advanced the tracked entities by 56 ms
C33_Witness ==
  /\ hist.ticks = 3
  /\ hist.fired
  /\ hist.dt = 56
  /\ hist.advanced = 96
  /\ clock = 96
  /\ Len(players.order) > 0
  /\ bullets.order # <<>>

-----------------------------------------------------------------------------
(* The game loop left to itself: gameLoop invocations and snapshots from the    *)
(* server, no input events.  The browser runs every scheduled invocation.       *)

\* a snapshot that mentions the second player and its bullet group only
ContentC ==
  [players |-> MapPut(EmptyMap, "p2", AgentStateOf(0, 300, 0, -300, 0, 0, 0)),
   bullets |-> MapPut(EmptyMap, "p2", <<BulletStateOf(150, 0, -50, 0)>>)]
LoopContents == {ContentA, ContentC}

NextLoop ==
  \/ \E d \in Deltas : GameLoop(d)
  \/ \E c \in LoopContents : Broadcast(c)

\* the browser runs a scheduled invocation: the steps that advance the clock are
\* the gameLoop invocations, possible whenever one is scheduled
InvocationRuns ==
  /\ hist.ticks < MaxTicks
  /\ hist.scheduled > 0
  /\ clock' \in {clock + d : d \in Deltas}

InitLoop ==
  /\ InitWorld(FALSE)
  /\ UnitObjectsIdle

SpecLoop == InitLoop /\ [][NextLoop]_vars /\ WF_clock(InvocationRuns)

-----------------------------------------------------------------------------
(* Claims about scheduling and snapshot consumption (checked under SpecLoop) *)

\* snapshot u has been consumed
IsApplied(u) == \E i \in DOMAIN hist.applied : hist.applied[i] = u
\* the invocations still to be explored bring the accumulator to the frame period,
\* however short their intervals
StepStillToFire ==
  (millisPassedSinceLastFrame + 16 * (MaxTicks - hist.ticks)) * FPS >= MillisPerSecond

PendingInTime == hasUpdate(serverUpdateManager) /\ StepStillToFire

\* C34: every gameLoop invocation, fired or not, leaves exactly one invocation
\* scheduled; a fired step consumes the pending snapshot, so that the players and
\* bullets maps hold its keys; every snapshot is consumed at most once; and, the
\* scheduled invocations being run and time advancing by 16 ms or more between
\* them, a snapshot held unconsumed by the manager is eventually consumed: the one
\* accepted last, those before it having been overwritten.
C34_ScheduledAndApplied ==
  /\ [](hist.scheduled = 1)
  /\ [][IsTick => hist'.scheduled = hist.scheduled]_vars
  /\ [][Consumes =>
          /\ IsApplied(Pending.id)'
          /\ ~hasUpdate(serverUpdateManager')
          /\ \A k \in SeqRange(Pending.players.order) : hasOwnProperty(players', k)
          /\ \A k \in SeqRange(Pending.bullets.order) :
               /\ hasOwnProperty(bullets', k)
               /\ Len(bullets'.val[k]) = Len(Pending.bullets.val[k])
       ]_vars
  /\ [](\A i, j \in DOMAIN hist.applied : hist.applied[i] = hist.applied[j] => i = j)
  /\ PendingInTime ~> ~hasUpdate(serverUpdateManager)

\* two snapshots, each consumed by the fired step that followed its broadcast
C34_Witness ==
  /\ hist.applied = <<1, 2>>
  /\ hist.ticks = MaxTicks
  /\ hist.scheduled = 1
  /\ ~hasUpdate(serverUpdateManager)
  /\ hasOwnProperty(players, "p2")

\* the keys of a map are all kept, in their order
KeysKept(m, m2) ==
  /\ Len(m.order) <= Len(m2.order)
  /\ SubSeq(m2.order, 1, Len(m.order)) = m.order
  /\ DOMAIN m.val \subseteq DOMAIN m2.val

\* C35: no step removes a key from the players map or the bullets map; a step that
\* consumes a snapshot leaves the list of every bullet group the snapshot does not
\* mention with the bullets it had, advanced by this step like all tracked bullets
\* and part of the scene that is rendered.
C35_UnmentionedGroupsKept ==
  /\ [][KeysKept(players, players') /\ KeysKept(bullets, bullets')]_vars
  /\ [][Consumes =>
          \A k \in DOMAIN bullets.val \ SeqRange(Pending.bullets.order) :
            /\ bullets'.val[k] =
                 [i \in DOMAIN bullets.val[k] |-> BulletUpdate(bullets.val[k][i], Accumulated)]
            /\ Cardinality(AtKey(hist'.log, "Bullet.update", k)) = Len(bullets.val[k])
            /\ At(hist'.log, "renderAll") # {}
            /\ \A i \in DOMAIN bullets.val[k] :
                 \E j \in DOMAIN getScene' : getScene'[j] = bullets'.val[k][i]
       ]_vars

\* the second snapshot consumed mentioned group p2 only: the two bullets of group p1
\* are those built from the first snapshot, and group p2 is the new list
C35_Witness ==
  /\ hist.applied = <<1, 2>>
  /\ hist.fired
  /\ hist.hadUpdate
  /\ bullets.order = <<"p1", "p2">>
  /\ Len(bullets.val["p1"]) = 2
  /\ \A i \in 1..2 : bullets.val["p1"][i].src.id = 1
  /\ Len(bullets.val["p2"]) = 1
  /\ bullets.val["p2"][1].src.id = 2
  /\ players.order = <<"p1", "p2">>

\* the player keys of the pending snapshot that are not tracked yet, in iteration order
NewKeys == SelectSeq(Pending.players.order, LAMBDA k : ~hasOwnProperty(players, k))
\* the keys of the agents created in a step, in the order of creation
CreatedKeys(log) == [i \in DOMAIN SelectSeq(log, LAMBDA e : e.op = "newAgent") |->
                       SelectSeq(log, LAMBDA e : e.op = "newAgent")[i].key]

\* C36: a step that consumes a snapshot creates an agent for each new player key in
\* iteration order and leaves the camera bound to the last of them, or to what it
\* followed before when no key is new; the follow target changes in no other step;
\* the camera of a fired step is the camera before it, re-bound but with pathPosition
\* and augmentedPosition untouched, updated against the players as they are after
\* this step's advance.
C36_FollowsLastNewPlayer ==
  /\ [][Consumes =>
          /\ CreatedKeys(hist'.log) = NewKeys
          /\ camera'.destinationPosition =
               IF NewKeys = <<>> THEN camera.destinationPosition ELSE Last(NewKeys)
       ]_vars
  /\ [][camera'.destinationPosition # camera.destinationPosition =>
          Consumes /\ NewKeys # <<>>]_vars
  /\ [][IsFiredTick =>
          camera' = UpdateCamera([camera EXCEPT
                                    !.destinationPosition = camera'.destinationPosition,
                                    !.debugLines = camera'.debugLines],
                                 players', Accumulated)
       ]_vars

\* a first snapshot with two new players has bound the camera to the second, and a
\* later snapshot with no new player was consumed with the camera still following it
C36_Witness ==
  /\ hist.applied = <<1, 2>>
  /\ hist.fired
  /\ hist.hadUpdate
  /\ hist.created = 2
  /\ Len(SelectSeq(hist.log, LAMBDA e : e.op = "newAgent")) = 0
  /\ players.order = <<"p1", "p2">>
  /\ camera.destinationPosition = "p2"
  /\ camera.kind = "Camera"
  /\ camera.pathPosition # origin

------------------------------------------------------------------------------
(* Claims about the debug toggle (checked under SpecView) *)

\* C37: a keydown of ' ' inverts debugOn, so two of them restore it; while debugOn
\* is false a wheel event leaves scale unchanged, and an update is Camera.update,
\* whatever arrow keys are held.
C37_DebugOffDisablesZoomAndPan ==
  /\ [][lastOp'.op = "keydown" /\ Len(camera'.keysDown) > Len(camera.keysDown)
          /\ Last(camera'.keysDown) = " " => camera'.debugOn = ~camera.debugOn]_vars
  /\ [][~camera.debugOn /\ lastOp'.op = "Camera.update" =>
          camera' = CameraUpdate(camera, players, hist.fixedDt)]_vars
  /\ [][~camera.debugOn /\ IsViewWheel => camera'.scale = camera.scale]_vars

-----------------------------------------------------------------------------
(* The IOManager from its construction in index.ts on: the GameWorld constructor *)
(* adds the debug camera's pair, the game loop adds a pair for every new player *)
(* and calls update and renderOutput; key and wheel events arrive at any time,  *)
(* from the moment the IOManager has registered its listeners.                  *)

\* the players the game loop comes to know, in the order it does
LayoutPlayerKeys == <<"p1", "p2">>
LayoutPlayers ==
  MapPut(MapPut(EmptyMap, "p1", NewAgent(1, AgentStateOf(100, 0, 0, 0, 0, 0, 0))),
         "p2", NewAgent(2, AgentStateOf(0, -200, 0, 0, 0, 0, 0)))
\* e.key of the key events
LayoutKeys == {"w", "c"}

InitLayouts ==
  /\ serverUpdateManager = NewServerUpdateManager
  /\ server = NewServer
  /\ players = LayoutPlayers
  /\ bullets = EmptyMap
  /\ isRequestingUpdates = FALSE
  /\ clock = 0
  /\ before = 0
  /\ millisPassedSinceLastFrame = 0
  /\ debugMode = FALSE
  /\ camera = NewCamera("Camera")
  /\ nextOid = 3
  /\ hist = [NoHist EXCEPT !.fixedDt = 16]
  /\ lastOp = NoOp
  /\ UnitObjectsIdle
  /\ PeripheralsNew

\* `new GameWorld(serverUpdateManager)`: ioManager.addIOPair(debugCamera, ...)
ConstructGameWorld ==
  /\ Len(ioManager.layouts) = 0
  /\ ioManager' = addIOPair(ioManager, NewCamera("DebugCamera"), "debug")
  /\ lastOp' = [NoOp EXCEPT !.op = "addIOPair"]
  /\ UNCHANGED <<outbound, hist>>
  /\ IOIdle

\* the game loop meets a new player: ioManager.addIOPair(camera, keyboardLayout)
AddPlayerPair(keyboardLayout) ==
  /\ Len(ioManager.layouts) >= 1
  /\ Len(ioManager.layouts) - 1 < Len(LayoutPlayerKeys)
  /\ ioManager' = addIOPair(ioManager,
                            centerOn(NewCamera("Camera"),
                                     LayoutPlayerKeys[Len(ioManager.layouts)]),
                            keyboardLayout)
  /\ lastOp' = [NoOp EXCEPT !.op = "addIOPair"]
  /\ UNCHANGED <<outbound, hist>>
  /\ IOIdle

\* what an event leaves in the history: the layout it reached, or the TypeError
AfterEvent(h, r) ==
  [h EXCEPT !.calls = @ + 1,
            !.reached = IF r.threw THEN -1 ELSE r.io.currLayoutIdx,
            !.thrown = IF r.threw THEN @ + 1 ELSE @]

\* a keydown event on the window
LayoutKeydown(key) ==
  /\ hist.calls < MaxCalls
  /\ LET r == IOKeydown(ioManager, outbound, key)
     IN /\ ioManager' = r.io
        /\ outbound' = r.sent
        /\ hist' = [AfterEvent(hist, r) EXCEPT !.held = @ \cup {toLowerCase(key)}]
  /\ lastOp' = [NoOp EXCEPT !.op = "keydown", !.arg = key]
  /\ IOIdle

\* a keyup event on the window, of a key that is held
LayoutKeyup(key) ==
  /\ hist.calls < MaxCalls
  /\ toLowerCase(key) \in hist.held
  /\ LET r == IOKeyup(ioManager, outbound, key)
     IN /\ ioManager' = r.io
        /\ outbound' = r.sent
        /\ hist' = [AfterEvent(hist, r) EXCEPT !.held = @ \ {toLowerCase(key)}]
  /\ lastOp' = [NoOp EXCEPT !.op = "keyup", !.arg = key]
  /\ IOIdle

\* a wheel event on the window
LayoutWheel ==
  /\ hist.calls < MaxCalls
  /\ LET r == IOWheel(ioManager, outbound)
     IN /\ ioManager' = r.io
        /\ outbound' = r.sent
        /\ hist' = AfterEvent(hist, r)
  /\ lastOp' = [NoOp EXCEPT !.op = "wheel"]
  /\ IOIdle

\* a fired step of the game loop: ioManager.update(...); ioManager.renderOutput()
LayoutFrame ==
  /\ hist.calls < MaxCalls
  /\ Len(ioManager.layouts) >= 1
  /\ ioManager' = IOUpdate(ioManager, players, hist.fixedDt)
  /\ hist' = [hist EXCEPT !.calls = @ + 1,
                          !.reached = ioManager.currLayoutIdx,
                          !.drawn = renderOutput(ioManager', getScene)]
  /\ lastOp' = [NoOp EXCEPT !.op = "frame", !.dt = hist.fixedDt]
  /\ UNCHANGED outbound
  /\ IOIdle

NextLayouts ==
  \/ ConstructGameWorld
  \/ \E l \in {"serverOutput", "doNothing"} : AddPlayerPair(l)
  \/ \E key \in LayoutKeys : LayoutKeydown(key)
  \/ \E key \in LayoutKeys : LayoutKeyup(key)
  \/ LayoutWheel
  \/ LayoutFrame

SpecLayouts == InitLayouts /\ [][NextLayouts]_vars

-----------------------------------------------------------------------------
(* Claims about the IOManager's current layout (checked under SpecLayouts) *)

IsLayoutEvent == hist'.calls = hist.calls + 1 /\ lastOp'.op \in {"keydown", "keyup", "wheel"}
IsLayoutFrame == hist'.calls = hist.calls + 1 /\ lastOp'.op = "frame"
\* every camera but the one at index i (from 0) is as it was
OtherCamerasKept(i) ==
  /\ Len(ioManager'.cameras) = Len(ioManager.cameras)
  /\ \A j \in DOMAIN ioManager.cameras :
       j # i + 1 => ioManager'.cameras[j] = ioManager.cameras[j]

\* C38: every key or wheel event finds layouts[currLayoutIdx] registered, from the
\* construction of the IOManager on, and reaches that layout only; so do update and
\* renderOutput, which update and render the current layout's camera and no other;
\* a keydown of 'c' moves currLayoutIdx on by one, from the last layout to 0, and
\* no other step changes it.
C38_CurrentLayoutRegistered ==
  /\ [][IsLayoutEvent =>
          /\ hist'.thrown = hist.thrown
          /\ HasCurrentLayout(ioManager')
          /\ hist'.reached = ioManager'.currLayoutIdx
          /\ ioManager'.cameras = ioManager.cameras]_vars
  /\ [][IsLayoutFrame =>
          /\ HasCurrentLayout(ioManager)
          /\ hist'.reached = ioManager.currLayoutIdx
          /\ OtherCamerasKept(ioManager.currLayoutIdx)
          /\ CurrentCamera(ioManager') = UpdateCamera(CurrentCamera(ioManager), players, hist.fixedDt)
          /\ hist'.drawn = renderAll(CurrentCamera(ioManager'), getScene)]_vars
  /\ [][ioManager'.currLayoutIdx =
          IF lastOp'.op = "keydown" /\ lastOp'.arg = "c" /\ Len(ioManager.layouts) > 0
          THEN (ioManager.currLayoutIdx + 1) % Len(ioManager.layouts)
          ELSE ioManager.currLayoutIdx]_vars

-----------------------------------------------------------------------------
(* The KeyboardManager, driven through addListener and the events on the window *)

\* whether this.listeners[this.currListenerIdx] is an element of the array; when it
\* is not, reading a property of it throws a TypeError
HasCurrentListener(km) == km.currListenerIdx < Len(km.listeners)

\* KeyboardManager's keydown listener: what it leaves behind, and whether it ended
\* with the TypeError
KMKeydown(km, key) ==
  LET cycled == IF key = "c" THEN [km EXCEPT !.currListenerIdx = @ + 1] ELSE km
  IN [km |-> cycled, threw |-> ~HasCurrentListener(cycled)]

\* KeyboardManager's keyup and wheel listeners
KMForward(km) == [km |-> km, threw |-> ~HasCurrentListener(km)]

\* KeyboardManager.addListener
addListener(km, receiver) == [km EXCEPT !.listeners = Append(@, receiver)]

InitKeyboard ==
  /\ InitWorld(FALSE)
  /\ UnitObjectsIdle

KeyboardIdle ==
  UNCHANGED <<serverUpdateManager, server, players, bullets, isRequestingUpdates, before,
              millisPassedSinceLastFrame, camera, debugMode, clock, nextOid, agent,
              bullet, vec1, vec2, ctx, ioManager, outbound>>

\* what an event leaves in the history: the listener it reached, or the TypeError
AfterKeyboardEvent(h, r) ==
  [h EXCEPT !.calls = @ + 1,
            !.reached = IF r.threw THEN -1 ELSE r.km.currListenerIdx,
            !.thrown = IF r.threw THEN @ + 1 ELSE @]

\* a keydown event on the window
KeyboardKeydown(key) ==
  /\ hist.calls < MaxCalls
  /\ LET r == KMKeydown(keyboardManager, key)
     IN /\ keyboardManager' = r.km
        /\ hist' = [AfterKeyboardEvent(hist, r) EXCEPT !.held = @ \cup {key}]
  /\ lastOp' = [NoOp EXCEPT !.op = "keydown", !.arg = key]
  /\ KeyboardIdle

\* a keyup event on the window, of a key that is held
KeyboardKeyup(key) ==
  /\ hist.calls < MaxCalls
  /\ key \in hist.held
  /\ LET r == KMForward(keyboardManager)
     IN /\ keyboardManager' = r.km
        /\ hist' = [AfterKeyboardEvent(hist, r) EXCEPT !.held = @ \ {key}]
  /\ lastOp' = [NoOp EXCEPT !.op = "keyup", !.arg = key]
  /\ KeyboardIdle

\* a wheel event on the window
KeyboardWheel ==
  /\ hist.calls < MaxCalls
  /\ LET r == KMForward(keyboardManager)
     IN /\ keyboardManager' = r.km
        /\ hist' = AfterKeyboardEvent(hist, r)
  /\ lastOp' = [NoOp EXCEPT !.op = "wheel"]
  /\ KeyboardIdle

\* keyboardManager.addListener(receiver)
CallAddListener(receiver) ==
  /\ hist.inputs < MaxInputs
  /\ keyboardManager' = addListener(keyboardManager, receiver)
  /\ hist' = [hist EXCEPT !.inputs = @ + 1]
  /\ lastOp' = [NoOp EXCEPT !.op = "addListener"]
  /\ KeyboardIdle

NextKeyboard ==
  \/ \E key \in LayoutKeys : KeyboardKeydown(key)
  \/ \E key \in LayoutKeys : KeyboardKeyup(key)
  \/ KeyboardWheel
  \/ \E receiver \in {"doNothing", "debug"} : CallAddListener(receiver)

SpecKeyboard == InitKeyboard /\ [][NextKeyboard]_vars

-----------------------------------------------------------------------------
(* Claims about the KeyboardManager's current listener (checked under           *)
(* SpecKeyboard)                                                                *)

IsKeyboardEvent ==
  hist'.calls = hist.calls + 1 /\ lastOp'.op \in {"keydown", "keyup", "wheel"}

\* C39: after any sequence of key presses and addListener calls currListenerIdx
\* indexes a registered listener, and every keydown, keyup and wheel event reaches
\* that listener: no listener of the KeyboardManager ends with a TypeError.
C39_CurrentListenerRegistered ==
  /\ [](HasCurrentListener(keyboardManager))
  /\ [][IsKeyboardEvent =>
          /\ hist'.thrown = hist.thrown
          /\ hist'.reached = keyboardManager'.currListenerIdx]_vars

-----------------------------------------------------------------------------
(* Claims about the snapshot the ServerUpdateManager holds (checked under Spec) *)

\* C40: the snapshot the ServerUpdateManager holds is, for as long as no other is
\* accepted, the snapshot as it was accepted: no step of the game loop, which
\* advances the agents and bullets built from it, changes a position or a velocity
\* in it.
C40_SnapshotNotModified ==
  [][Pending'.id = Pending.id => Pending' = Pending]_vars

=============================================================================
